---- MODULE Spec2Model ----
(***************************************************************************)
(* Model of the GitHub analytics collection pipeline (scripts/):           *)
(*   - GitHubAPIClient._make_request and its rate-limit helpers            *)
(*     (github_api.py), one action per iteration of the retry loop;        *)
(*   - DataCollectionOrchestrator (collect_data.py), one action per step   *)
(*     of collect_repository_data / collect_all_repositories.              *)
(*                                                                         *)
(* Time is counted in ticks of 100 ms (TicksPerSec ticks per second), so   *)
(* that the 100 ms request spacing and the sub-second jitter of the        *)
(* backoff are both representable.  X-RateLimit-Reset is in whole epoch    *)
(* seconds, as the API sends it.  A response body is a JSON document, is   *)
(* empty, or is text that response.json() cannot parse (the error page of  *)
(* a gateway).                                                             *)
(***************************************************************************)
EXTENDS Integers, Sequences, FiniteSets, TLC

\* ------------------------------------------------------------------ bounds
\* Offsets (in seconds, relative to the second in which the response is
\* received) of the X-RateLimit-Reset values the modelled API may send.
ResetPast == 2
ResetAhead == 3
\* Largest time (ticks) a request may take to be answered or to fail.
MaxElapsed == 0
\* Clock (ticks) at which the client is constructed.
StartTime == 1003
\* Number of repositories in the configuration file.
NumRepos == 2
\* Year of the December in which the modelled calendar starts.
FirstYear == 2024
\* Number of storage calls in one behaviour of the storage specification.
MaxOps == 2
\* Longest daily series drawn for a traffic response.
MaxApiDays == 2
\* Days the clock may move between the two clock readings of one collection.
MaxRollover == 1
\* Failures (API errors, writes that do not reach the disk) met by one run of
\* the orchestrator, at most.
MaxFaults == 2
\* Largest number of repositories in a result map handed to the report.
MaxReported == 4
\* Gets made with one client instance.
MaxGets == 2

\* ------------------------------------------------------- program constants
TicksPerSec == 10
None == 0 - 1
DefaultMaxRetries == 3
MinSpacingTicks == TicksPerSec \div 10
LowWater == 10
DefaultRemaining == 5000
FallbackWaitSecs == 60

\* X-RateLimit-Remaining values on either side of the low-water threshold.
BelowLowWater == LowWater - 1
AtLowWater == LowWater

Max(a, b) == IF a >= b THEN a ELSE b

RECURSIVE Pow2(_)
Pow2(n) == IF n = 0 THEN 1 ELSE 2 * Pow2(n - 1)

\* ---------------------------------------------------------------- variables
VARIABLES
    now,                  \* time.time(), in ticks
    rate_limit_remaining, \* GitHubAPIClient.rate_limit_remaining
    rate_limit_reset,     \* GitHubAPIClient.rate_limit_reset (epoch seconds or None)
    last_request_time,    \* GitHubAPIClient.last_request_time (ticks)
    pc,                   \* "idle" | "running" | "returned" | "raised"
    attempt,              \* loop variable of _make_request
    log,                  \* one record per loop iteration of the current get
    result                \* what the get returned or raised

clientVars == <<now, rate_limit_remaining, rate_limit_reset, last_request_time,
                pc, attempt, log, result>>

VARIABLES
    config,               \* ConfigManager's repositories, in configuration order
    include_historical,   \* --include-historical, as passed to collect_all_repositories
    opc,                  \* the position of main and of the orchestrator
    position,             \* index of the for loop in the enabled repositories
    cur,                  \* the Repository being collected (its index in config)
    returns,              \* what collect_repository_data returned, per collected entry of config
    should_include_historical, \* include_historical of collect_repository_data
    results,              \* results of collect_all_repositories: "owner/name" -> bool
    steps,                \* the steps performed in this run, in order
    run,                  \* stamp written by update_last_updated in this run
    mode,                 \* "all", "single" (--repository) in main, "call_all",
                          \* "call_single" in a direct call, "none" before
    fetched,              \* locals of collect_repository_data: traffic_data, referrers
    report,               \* what generate_collection_report returned, if called
    exit_code,            \* the argument of sys.exit, None while the process runs
    error                 \* why main gave up before collecting, "none" otherwise

orchVars == <<config, include_historical, opc, position, cur,
              should_include_historical, returns, results, steps, run, mode, fetched,
              report, exit_code, error>>

VARIABLES
    files,                \* the data directory: per repository, its JSON files
    today,                \* the current UTC date, as a day number
    ops                   \* the storage calls made so far, each with what it found and returned

storeVars == <<files, today, ops>>

VARIABLES
    api,                  \* the traffic GitHub reports: views and clones responses
    collected             \* what collect_historical_traffic_data returned, if called

VARIABLES
    supplied              \* the classes that define the members src calls on them

apiVars == <<api, collected, supplied>>

\* ------------------------------------------------------------ environment
\* Rate-limit headers a response may carry at time t.
Headers(t) ==
    LET past == (t \div TicksPerSec) - ResetPast
        ahead == (t \div TicksPerSec) + ResetAhead
    IN  { [remaining |-> None, reset |-> None],
          [remaining |-> None, reset |-> ahead],
          [remaining |-> AtLowWater, reset |-> ahead],
          [remaining |-> BelowLowWater, reset |-> None],
          [remaining |-> BelowLowWater, reset |-> ahead],
          [remaining |-> BelowLowWater, reset |-> past] }

\* What one session.get may produce at time t: a network-level failure
\* (requests.exceptions.RequestException) or an HTTP response.
\* `content` is the body of the response: "json", a JSON document; "empty",
\* no content; "text", content that is not JSON.
NetErr == [kind |-> "neterr", status |-> None, rate_limited |-> FALSE, content |-> "empty",
           remaining |-> None, reset |-> None]

HttpResponses(t) ==
    { [kind |-> "http", status |-> s, rate_limited |-> rl, content |-> "json",
       remaining |-> h.remaining, reset |-> h.reset] :
         s \in {200, 401, 403, 404, 500}, rl \in BOOLEAN, h \in Headers(t) }

\* Responses whose body is not a JSON document: empty, or text or HTML, as a
\* proxy or gateway in front of the API answers, without rate-limit headers.
\* _make_request reads the body of a 200 (the value it returns) and of a
\* 403 and the other statuses below 500 (the response_data of the error);
\* the 404 and 5xx branches do not read the body.
NotJsonResponses ==
    { [kind |-> "http", status |-> s, rate_limited |-> FALSE, content |-> c,
       remaining |-> None, reset |-> None] : s \in {200, 401, 403}, c \in {"empty", "text"} }

\* 'rate limit' in response.text.lower() is only looked at for a 403; the
\* other statuses are enumerated with a body that does not mention it.
Responses(t) ==
    {NetErr} \cup { r \in HttpResponses(t) : r.rate_limited => r.status = 403 }
             \cup NotJsonResponses

\* ------------------------------------------------------------ pure helpers
\* _check_rate_limit: the length of the pre-emptive sleep at time t.
CheckRateLimitSleepNoMargin(remaining, reset, t) ==
    IF remaining # None /\ remaining < LowWater
    THEN IF reset # None /\ reset # 0
         THEN LET wait_time == reset * TicksPerSec - t
              IN  IF wait_time > 0 THEN wait_time ELSE 0
         ELSE 0
    ELSE 0
CheckRateLimitSleep(remaining, reset, t) ==
    IF remaining # None /\ remaining < LowWater
    THEN IF reset # None /\ reset # 0
         THEN LET wait_time == reset * TicksPerSec - t
              IN  IF wait_time > 0 THEN wait_time + TicksPerSec ELSE 0
         ELSE 0
    ELSE 0

\* The minimum-delay sleep of _make_request at time t.
SpacingSleep(last, t) ==
    LET time_since_last == t - last
    IN  IF time_since_last < MinSpacingTicks
        THEN MinSpacingTicks - time_since_last
        ELSE 0

\* _update_rate_limit_info
UpdatedRemainingCountingRequest(resp) ==
    IF resp.remaining = None THEN DefaultRemaining ELSE resp.remaining - 1
UpdatedRemaining(resp) ==
    IF resp.remaining = None THEN DefaultRemaining ELSE resp.remaining

UpdatedResetClearing(resp, old) == resp.reset
UpdatedReset(resp, old) ==
    IF resp.reset # None THEN resp.reset ELSE old

\* _handle_rate_limit: the length of the sleep after a rate-limit 403 at time t.
HandleRateLimitSleepNoMargin(resp, t) ==
    IF resp.reset # None
    THEN Max(resp.reset * TicksPerSec - t, 0)
    ELSE FallbackWaitSecs * TicksPerSec
HandleRateLimitSleep(resp, t) ==
    IF resp.reset # None
    THEN Max(resp.reset * TicksPerSec - t + TicksPerSec, 0)
    ELSE FallbackWaitSecs * TicksPerSec

\* (2 ** attempt) + (time.time() % 1)
BackoffSleepLinear(att, t) == 2 * att * TicksPerSec + (t % TicksPerSec)
BackoffSleep(att, t) == Pow2(att) * TicksPerSec + (t % TicksPerSec)

\* ---------------------------------------------------------------- results
\* A returned body is identified by the number of the response that carried
\* it; a GitHubAPIError by its status_code and its message.
Returned(n) == [kind |-> "ok", status |-> 200, body |-> n, msg |-> "none"]
ApiError(status, msg) == [kind |-> "error", status |-> status, body |-> None, msg |-> msg]
NoResult == [kind |-> "none", status |-> None, body |-> None, msg |-> "none"]

\* attempt < max_retries: another try is left for a server or network failure.
RetryAllowedOffByOne(att, max_retries) == att < max_retries - 1
RetryAllowed(att, max_retries) == att < max_retries

\* response.status_code >= 500
IsServerError(status) == status >= 500

\* `except requests.exceptions.RequestException`: a backoff sleep and another
\* turn of the loop while a retry is left, GitHubAPIError without a status
\* code otherwise.
RequestFailed(att, max_retries, t) ==
    IF RetryAllowed(att, max_retries)
    THEN [op |-> "continue", sleep |-> "backoff", dur |-> BackoffSleep(att, t), res |-> NoResult]
    ELSE [op |-> "raise", sleep |-> "none", dur |-> 0,
          res |-> ApiError(None, "request failed after retries")]

\* What one loop iteration decides once the response (or failure) is in:
\* "return", "raise", or "continue" after a sleep of a given kind and length.
\* response.json() on a body it cannot parse raises
\* requests.exceptions.JSONDecodeError, a RequestException: raised inside the
\* try, while the value to return or the GitHubAPIError is being built, it
\* is handled like a failure of the request.  `return response.json()`
\* raises on every body that is not a JSON document; the error branches,
\* `response.json() if response.content else None`, only on text.
Outcome(resp, att, max_retries, t, n) ==
    IF resp.kind = "neterr"
    THEN RequestFailed(att, max_retries, t)
    ELSE IF resp.status = 200
    THEN IF resp.content = "json"
         THEN [op |-> "return", sleep |-> "none", dur |-> 0, res |-> Returned(n)]
         ELSE RequestFailed(att, max_retries, t)
    ELSE IF resp.status = 403
    THEN IF resp.rate_limited
         THEN [op |-> "continue", sleep |-> "ratelimit", dur |-> HandleRateLimitSleep(resp, t), res |-> NoResult]
         ELSE IF resp.content # "text"
         THEN [op |-> "raise", sleep |-> "none", dur |-> 0, res |-> ApiError(403, "access forbidden")]
         ELSE RequestFailed(att, max_retries, t)
    ELSE IF resp.status = 404
    THEN [op |-> "raise", sleep |-> "none", dur |-> 0, res |-> ApiError(404, "not found")]
    ELSE IF IsServerError(resp.status)
    THEN IF RetryAllowed(att, max_retries)
         THEN [op |-> "continue", sleep |-> "backoff", dur |-> BackoffSleep(att, t), res |-> NoResult]
         ELSE [op |-> "raise", sleep |-> "none", dur |-> 0,
               res |-> ApiError(resp.status, "server error")]
    ELSE IF resp.content # "text"
    THEN [op |-> "raise", sleep |-> "none", dur |-> 0, res |-> ApiError(resp.status, "http")]
    ELSE RequestFailed(att, max_retries, t)

\* `continue` on the last value of range(max_retries + 1) leaves the loop and
\* reaches the final raise of _make_request.
LoopExhaustedNever(att, max_retries) == FALSE
LoopExhausted(att, max_retries) == att + 1 > max_retries

\* ----------------------------------------------------------------- actions
ClientInit ==
    /\ now = StartTime
    /\ rate_limit_remaining = DefaultRemaining
    /\ rate_limit_reset = None
    /\ last_request_time = 0
    /\ pc = "idle"
    /\ attempt = 0
    /\ log = <<>>
    /\ result = NoResult

\* A caller enters _make_request(url) with the default max_retries.
StartGet ==
    /\ pc = "idle"
    /\ pc' = "running"
    /\ attempt' = 0
    /\ log' = <<>>
    /\ result' = NoResult
    /\ UNCHANGED <<now, rate_limit_remaining, rate_limit_reset, last_request_time>>
    /\ UNCHANGED <<orchVars, storeVars, apiVars>>

\* One iteration of the retry loop: pre-emptive pause, spacing, the request,
\* bookkeeping, and the branch on the response; the server answers with one
\* of `statuses` (None: the request fails in the network).
AttemptAmong(elapsed, statuses) ==
    /\ pc = "running"
    /\ UNCHANGED <<orchVars, storeVars, apiVars>>
    /\ LET pause == CheckRateLimitSleep(rate_limit_remaining, rate_limit_reset, now)
           t_checked == now + pause
           spacing == SpacingSleep(last_request_time, t_checked)
           t_request == t_checked + spacing
           t_response == t_request + elapsed
       IN  \E resp \in { r \in Responses(t_response) : r.status \in statuses } :
           LET n == Len(log) + 1
               out == Outcome(resp, attempt, DefaultMaxRetries, t_response, n)
               entry == [attempt |-> attempt, t_enter |-> now,
                         remaining_enter |-> rate_limit_remaining,
                         reset_enter |-> rate_limit_reset,
                         pause |-> pause, spacing |-> spacing,
                         t_request |-> t_request, t_response |-> t_response,
                         resp |-> resp, sleep |-> out.sleep, dur |-> out.dur]
           IN  /\ log' = Append(log, entry)
               /\ now' = t_response + out.dur
               /\ IF resp.kind = "http"
                  THEN /\ last_request_time' = t_response
                       /\ rate_limit_remaining' = UpdatedRemaining(resp)
                       /\ rate_limit_reset' = UpdatedReset(resp, rate_limit_reset)
                  ELSE UNCHANGED <<last_request_time, rate_limit_remaining, rate_limit_reset>>
               /\ IF out.op = "continue"
                  THEN IF LoopExhausted(attempt, DefaultMaxRetries)
                       THEN /\ pc' = "raised"
                            /\ result' = ApiError(None, "request failed after retries")
                            /\ attempt' = attempt
                       ELSE /\ pc' = "running"
                            /\ result' = result
                            /\ attempt' = attempt + 1
                  ELSE /\ pc' = IF out.op = "return" THEN "returned" ELSE "raised"
                       /\ result' = out.res
                       /\ attempt' = attempt

\* Every status the modelled server answers with.
Statuses == {None, 200, 401, 403, 404, 500}
Attempt(elapsed) == AttemptAmong(elapsed, Statuses)

\* The client is used again after a get has ended; the log goes on, as the
\* record of the requests the client instance has issued.
GetsStarted == Cardinality({i \in 1..Len(log) : log[i].attempt = 0})
StartNextGet ==
    /\ pc \in {"returned", "raised"}
    /\ GetsStarted < MaxGets
    /\ pc' = "running"
    /\ attempt' = 0
    /\ result' = NoResult
    /\ UNCHANGED <<now, rate_limit_remaining, rate_limit_reset, last_request_time, log>>
    /\ UNCHANGED <<orchVars, storeVars, apiVars>>

\* Gets of one client on a server that answers 200 when the network lets
\* the request through.
GetsStatuses == {None, 200}
GetsNext ==
    \/ StartGet
    \/ StartNextGet
    \/ \E elapsed \in 0..MaxElapsed : AttemptAmong(elapsed, GetsStatuses)

ClientNext ==
    \/ StartGet
    \/ \E elapsed \in 0..MaxElapsed : Attempt(elapsed)

\* ----------------------------------------------------------------- storage
\* Dictionaries (JSON objects) are functions; {} is the empty function.
EmptyDict == <<>>
DictHas(d, k) == k \in DOMAIN d
DictGet(d, k, default) == IF k \in DOMAIN d THEN d[k] ELSE default
DictSet(d, k, v) == (k :> v) @@ d

\* Calendar days are numbered from 1 December of FirstYear; the numbered
\* days cover that December and the following January.
DaysInDecember == 31
DateOf(n) ==
    IF n < DaysInDecember
    THEN [year |-> FirstYear, month |-> 12, day |-> n + 1]
    ELSE [year |-> FirstYear + 1, month |-> 1, day |-> n - DaysInDecember + 1]
\* 31 December and 1 January.
YearEnd == DaysInDecember - 1
NewYear == YearEnd + 1

\* A datetime is a day number and a time of day (0 = midnight).
DateTime(n, tod) == [day |-> n, tod |-> tod]
YearOf(date) == DateOf(date.day).year

\* format_date_for_data_key: strftime('%Y-%m-%d'), as its three fields.
FormatDateForDataKeyWithTime(date) ==
    LET d == DateOf(date.day) IN <<d.year, d.month, d.day, date.tod>>
FormatDateForDataKey(date) ==
    LET d == DateOf(date.day) IN <<d.year, d.month, d.day>>

\* format_month_for_data_key: strftime('%Y-%m')
FormatMonthForDataKey(date) ==
    <<DateOf(date.day).year, DateOf(date.day).month>>

\* A JSON file on disk: a document, or the remains of an interrupted write.
\* A file that does not exist yet reads like an empty document.
NoFile == [valid |-> TRUE, doc |-> EmptyDict]
BrokenFile == [valid |-> FALSE, doc |-> EmptyDict]

\* safe_json_load: {} when the file is missing or is not valid JSON.
SafeJsonLoad(file) == IF file.valid THEN file.doc ELSE EmptyDict

\* safe_json_save under each behaviour of the disk: "ok"; "fail_open", open()
\* raises and the file is untouched; "fail_write", the file has been
\* truncated by open(..., 'w') when json.dump raises.
DiskOutcomes == {"ok", "fail_open", "fail_write"}

\* src calls members of DataFileManager (save_daily_data, load_referrers_data,
\* save_referrers_data) and of ConfigManager and its objects
\* (get_enabled_repositories, get_repository, update_last_updated,
\* Repository.last_updated, the repositories of the loaded configuration)
\* that no class of src defines.  A call of a member that is not there raises
\* AttributeError; `supplied` names the classes that have these members.
Undefined == {"DataFileManager", "ConfigManager"}

\* What a write does: what the disk does when DataFileManager has its
\* members, "undefined" (the AttributeError) when it has not.
WriteOutcome(has, disk) == IF "DataFileManager" \in has THEN disk ELSE "undefined"
SafeJsonSave(file, data, disk) ==
    IF disk = "ok" THEN [file |-> [valid |-> TRUE, doc |-> data], ok |-> TRUE]
    ELSE IF disk = "fail_open" THEN [file |-> file, ok |-> FALSE]
    ELSE [file |-> BrokenFile, ok |-> FALSE]

\* DataFileManager.load_daily_data
LoadDailyData(repo_files, year) ==
    DictGet(SafeJsonLoad(repo_files.daily), year, EmptyDict)

\* DataFileManager.save_daily_data: puts the year's entries back into the
\* daily-metrics document and writes it.
SaveDailyData(repo_files, year, daily_data, disk) ==
    LET saved == SafeJsonSave(repo_files.daily,
                              DictSet(SafeJsonLoad(repo_files.daily), year, daily_data),
                              disk)
    IN  IF disk = "undefined"
        THEN [files |-> repo_files, ok |-> FALSE, raised |-> TRUE]
        ELSE [files |-> [repo_files EXCEPT !.daily = saved.file], ok |-> saved.ok,
              raised |-> FALSE]

\* DataFileManager.load_referrers_data / save_referrers_data
LoadReferrersData(repo_files) == SafeJsonLoad(repo_files.referrers)
SaveReferrersData(repo_files, referrers_data, disk) ==
    LET saved == SafeJsonSave(repo_files.referrers, referrers_data, disk)
    IN  IF disk = "undefined"
        THEN [files |-> repo_files, ok |-> FALSE, raised |-> TRUE]
        ELSE [files |-> [repo_files EXCEPT !.referrers = saved.file], ok |-> saved.ok,
              raised |-> FALSE]

DailyEntry(views, unique_visitors, clones, unique_cloners, timestamp) ==
    [views |-> views, unique_visitors |-> unique_visitors,
     clones |-> clones, unique_cloners |-> unique_cloners,
     timestamp |-> timestamp]

\* The assignment daily_data[date_key] = {...} of store_daily_metrics.
UpsertAdding(daily_data, date_key, entry) ==
    IF DictHas(daily_data, date_key)
    THEN DictSet(daily_data, date_key,
                 [entry EXCEPT !.views = @ + daily_data[date_key].views,
                               !.clones = @ + daily_data[date_key].clones])
    ELSE DictSet(daily_data, date_key, entry)
Upsert(daily_data, date_key, entry) == DictSet(daily_data, date_key, entry)

\* AnalyticsDataStorage.store_daily_metrics: the files it leaves and the
\* bool it returns.  `stamp` is get_current_utc_timestamp().
StoreDailyMetrics(repo_files, date, views, unique_visitors, clones, unique_cloners, stamp, disk) ==
    LET year == YearOf(date)
        date_key == FormatDateForDataKey(date)
        daily_data == LoadDailyData(repo_files, year)
        updated == Upsert(daily_data, date_key,
                          DailyEntry(views, unique_visitors, clones, unique_cloners, stamp))
        saved == SaveDailyData(repo_files, year, updated, disk)
    IN  IF saved.raised
        THEN [files |-> repo_files, ok |-> FALSE]
        ELSE [files |-> saved.files, ok |-> saved.ok]

\* referrers_data[month][referrer] += count, or = count for a new referrer.
MergeCountOverwriting(month_data, referrer, count) == DictSet(month_data, referrer, count)
MergeCount(month_data, referrer, count) ==
    IF DictHas(month_data, referrer)
    THEN DictSet(month_data, referrer, month_data[referrer] + count)
    ELSE DictSet(month_data, referrer, count)

\* The loop `for referrer, count in referrers.items()`.
RECURSIVE MergeReferrers(_, _)
MergeReferrers(month_data, referrers) ==
    IF DOMAIN referrers = {} THEN month_data
    ELSE LET referrer == CHOOSE x \in DOMAIN referrers : TRUE
             rest == [x \in DOMAIN referrers \ {referrer} |-> referrers[x]]
         IN  MergeReferrers(MergeCount(month_data, referrer, referrers[referrer]), rest)

\* The month argument of a caller that leaves it out.
NoMonth == <<>>

\* AnalyticsDataStorage.store_referrers_data; `month` is NoMonth when the caller
\* leaves it out and `current` is datetime.now(timezone.utc).
StoreReferrersData(repo_files, referrers, month, current, disk) ==
    LET month_key == IF month = NoMonth THEN FormatMonthForDataKey(current) ELSE month
        referrers_data == LoadReferrersData(repo_files)
        month_data == DictGet(referrers_data, month_key, EmptyDict)
        updated == DictSet(referrers_data, month_key, MergeReferrers(month_data, referrers))
        saved == SaveReferrersData(repo_files, updated, disk)
    IN  IF saved.raised
        THEN [files |-> repo_files, ok |-> FALSE]
        ELSE [files |-> saved.files, ok |-> saved.ok]

\* datetime.fromisoformat(timestamp.replace('Z', '+00:00')) of one of the
\* API's daily timestamps, which are midnights.
ParseTimestamp(timestamp) == DateTime(timestamp, 0)
DayData(timestamp, count, uniques) ==
    [timestamp |-> timestamp, count |-> count, uniques |-> uniques]

\* One iteration of the views loop of store_historical_data.  `state` is the
\* files so far and success_count.
ViewsStepOverwriting(state, day_data, stamp, disk) ==
    IF day_data.timestamp = None THEN state
    ELSE LET date == ParseTimestamp(day_data.timestamp)
             stored == StoreDailyMetrics(state.files, date, day_data.count,
                                         day_data.uniques, 0, 0, stamp, disk)
         IN  [state EXCEPT
                !.files = stored.files,
                !.success_count = @ + (IF stored.ok THEN 1 ELSE 0)]
ViewsStep(state, day_data, stamp, disk) ==
    IF day_data.timestamp = None THEN state
    ELSE LET date == ParseTimestamp(day_data.timestamp)
             year == YearOf(date)
             date_key == FormatDateForDataKey(date)
             daily_data == LoadDailyData(state.files, year)
             stored == StoreDailyMetrics(state.files, date, day_data.count,
                                         day_data.uniques, 0, 0, stamp, disk)
         IN  IF DictHas(daily_data, date_key) THEN state
             ELSE [state EXCEPT
                     !.files = stored.files,
                     !.success_count = @ + (IF stored.ok THEN 1 ELSE 0)]

\* The clones loop's change to the year's entries.
ClonesMergeResettingViews(daily_data, date_key, day_data, stamp) ==
    DictSet(daily_data, date_key, DailyEntry(0, 0, day_data.count, day_data.uniques, stamp))
ClonesMergeAdding(daily_data, date_key, day_data, stamp) ==
    IF DictHas(daily_data, date_key)
    THEN DictSet(daily_data, date_key,
                 [daily_data[date_key] EXCEPT
                    !.clones = @ + day_data.count,
                    !.unique_cloners = @ + day_data.uniques])
    ELSE DictSet(daily_data, date_key,
                 DailyEntry(0, 0, day_data.count, day_data.uniques, stamp))
ClonesMergeKeepingCloners(daily_data, date_key, day_data, stamp) ==
    IF DictHas(daily_data, date_key)
    THEN DictSet(daily_data, date_key,
                 [daily_data[date_key] EXCEPT !.clones = day_data.count])
    ELSE DictSet(daily_data, date_key,
                 DailyEntry(0, 0, day_data.count, day_data.uniques, stamp))
ClonesMerge(daily_data, date_key, day_data, stamp) ==
    IF DictHas(daily_data, date_key)
    THEN DictSet(daily_data, date_key,
                 [daily_data[date_key] EXCEPT !.clones = day_data.count,
                                              !.unique_cloners = day_data.uniques])
    ELSE DictSet(daily_data, date_key,
                 DailyEntry(0, 0, day_data.count, day_data.uniques, stamp))

\* One iteration of the clones loop; the result of save_daily_data is ignored,
\* its AttributeError leaves the loop for the except clause.
ClonesStep(state, day_data, stamp, disk) ==
    IF day_data.timestamp = None THEN state
    ELSE LET date == ParseTimestamp(day_data.timestamp)
             year == YearOf(date)
             date_key == FormatDateForDataKey(date)
             daily_data == LoadDailyData(state.files, year)
             saved == SaveDailyData(state.files, year,
                                    ClonesMerge(daily_data, date_key, day_data, stamp), disk)
         IN  IF saved.raised
             THEN [state EXCEPT !.raised = TRUE]
             ELSE [state EXCEPT
                     !.files = saved.files,
                     !.success_count = @ + (IF DictHas(daily_data, date_key) THEN 0 ELSE 1)]

\* The loops go on while entries remain; success_count only grows from 0.
RECURSIVE ViewsLoop(_, _, _, _)
ViewsLoop(state, views_daily, stamp, disk) ==
    IF views_daily # <<>> /\ state.success_count >= 0
    THEN ViewsLoop(ViewsStep(state, Head(views_daily), stamp, disk),
                   Tail(views_daily), stamp, disk)
    ELSE state

RECURSIVE ClonesLoop(_, _, _, _)
ClonesLoop(state, clones_daily, stamp, disk) ==
    IF clones_daily # <<>> /\ state.success_count >= 0 /\ ~state.raised
    THEN ClonesLoop(ClonesStep(state, Head(clones_daily), stamp, disk),
                    Tail(clones_daily), stamp, disk)
    ELSE state

\* `return success_count > 0`
HistoricalResultAlways(success_count) == success_count >= 0
HistoricalResult(success_count) == success_count > 0

\* AnalyticsDataStorage.store_historical_data: the files it leaves, the
\* success_count it reached and the bool it returns.
StoreHistoricalData(repo_files, views_daily, clones_daily, stamp, disk) ==
    LET after_views == ViewsLoop([files |-> repo_files, success_count |-> 0,
                                  raised |-> FALSE],
                                 views_daily, stamp, disk)
        after_clones == ClonesLoop(after_views, clones_daily, stamp, disk)
    IN  [files |-> after_clones.files,
         success_count |-> after_clones.success_count,
         ok |-> IF after_clones.raised THEN FALSE
                ELSE HistoricalResult(after_clones.success_count)]

\* ------------------------------------------------------------ storage, reads
\* The days the calendar numbers: December of FirstYear and the January after.
Calendar == 0 .. (2 * DaysInDecember - 1)

\* datetime(year, int(month), int(day), tzinfo=timezone.utc): midnight of the
\* day, or a ValueError when there is no such day.
IsCalendarDate(year, month, day) ==
    \E n \in Calendar : DateOf(n) = [year |-> year, month |-> month, day |-> day]
DayNumber(year, month, day) ==
    CHOOSE n \in Calendar : DateOf(n) = [year |-> year, month |-> month, day |-> day]

\* `month, day = date_key.split('-')`: the unpacking raises ValueError unless
\* the key has exactly two fields.
UnpacksAsMonthDay(date_key) == Len(date_key) = 2

\* The try block of get_date_range_metrics up to the date: the date a key
\* of the year-document names, or the ValueError that skips the entry.
ParseDateKey(year, date_key) ==
    IF UnpacksAsMonthDay(date_key) /\ IsCalendarDate(year, date_key[1], date_key[2])
    THEN [ok |-> TRUE, date |-> DateTime(DayNumber(year, date_key[1], date_key[2]), 0)]
    ELSE [ok |-> FALSE, date |-> DateTime(None, 0)]

\* Comparison of two datetimes.
DateTimeLeq(a, b) == a.day < b.day \/ (a.day = b.day /\ a.tod <= b.tod)

\* DailyMetrics(date=date.isoformat(), ...) of a stored entry.
DailyMetrics(date, data) ==
    [date |-> date, views |-> data.views, unique_visitors |-> data.unique_visitors,
     clones |-> data.clones, unique_cloners |-> data.unique_cloners,
     timestamp |-> data.timestamp]

\* metrics.sort(key=lambda x: x.date) of a collection of metrics with
\* distinct dates.
RECURSIVE SortedByDate(_)
SortedByDate(metrics) ==
    IF metrics = {} THEN <<>>
    ELSE LET first == CHOOSE m \in metrics :
                          \A other \in metrics : DateTimeLeq(m.date, other.date)
         IN  <<first>> \o SortedByDate(metrics \ {first})

\* AnalyticsDataStorage.get_date_range_metrics
GetDateRangeMetrics(repo_files, start_date, end_date) ==
    LET years == YearOf(start_date) .. YearOf(end_date)
        InRange(year, date_key) ==
            LET parsed == ParseDateKey(year, date_key)
            IN  /\ parsed.ok
                /\ DateTimeLeq(start_date, parsed.date)
                /\ DateTimeLeq(parsed.date, end_date)
        metrics ==
            UNION { { DailyMetrics(ParseDateKey(year, date_key).date,
                                   LoadDailyData(repo_files, year)[date_key]) :
                        date_key \in { k \in DOMAIN LoadDailyData(repo_files, year) :
                                          InRange(year, k) } } :
                    year \in years }
    IN  SortedByDate(metrics)

\* sum(m.<field> for m in metrics)
RECURSIVE SumOfMetrics(_, _)
SumOfMetrics(metrics, field) ==
    IF metrics = <<>> THEN 0
    ELSE Head(metrics)[field] + SumOfMetrics(Tail(metrics), field)

\* max(metrics, key=lambda x: x.views): the first entry with the most views.
PeakDay(metrics) ==
    LET i == CHOOSE k \in DOMAIN metrics :
                 /\ \A j \in DOMAIN metrics : metrics[j].views <= metrics[k].views
                 /\ \A j \in 1 .. (k - 1) : metrics[j].views < metrics[k].views
    IN  metrics[i]

\* A quotient of two integers, kept exact.
Fraction(num, den) == [num |-> num, den |-> den]

\* AnalyticsDataStorage.get_summary_statistics, called with both dates.
GetSummaryStatistics(repo_files, start_date, end_date) ==
    LET metrics == GetDateRangeMetrics(repo_files, start_date, end_date)
    IN  IF metrics = <<>>
        THEN [total_views |-> 0, total_unique_visitors |-> 0,
              total_clones |-> 0, total_unique_cloners |-> 0,
              days_with_data |-> 0,
              average_daily_views |-> Fraction(0, 1),
              average_daily_visitors |-> Fraction(0, 1),
              peak_views_day |-> None, peak_views_count |-> 0]
        ELSE [total_views |-> SumOfMetrics(metrics, "views"),
              total_unique_visitors |-> SumOfMetrics(metrics, "unique_visitors"),
              total_clones |-> SumOfMetrics(metrics, "clones"),
              total_unique_cloners |-> SumOfMetrics(metrics, "unique_cloners"),
              days_with_data |-> Len(metrics),
              average_daily_views |-> Fraction(SumOfMetrics(metrics, "views"), Len(metrics)),
              average_daily_visitors |->
                  Fraction(SumOfMetrics(metrics, "unique_visitors"), Len(metrics)),
              peak_views_day |-> PeakDay(metrics).date.day,
              peak_views_count |-> PeakDay(metrics).views]

\* The sum of a counter over some entries of a year-document.
RECURSIVE SumOfEntries(_, _, _)
SumOfEntries(daily_data, keys, field) ==
    IF keys = {} THEN 0
    ELSE LET key == CHOOSE k \in keys : TRUE
         IN  daily_data[key][field] + SumOfEntries(daily_data, keys \ {key}, field)

\* AnalyticsDataStorage.calculate_monthly_aggregates: the entries whose key
\* unpacks as month and day, added up under the key f"{year}-{month}".
CalculateMonthlyAggregates(repo_files, year) ==
    LET daily_data == LoadDailyData(repo_files, year)
        counted == { k \in DOMAIN daily_data : UnpacksAsMonthDay(k) }
        month_keys == { <<year, k[1]>> : k \in counted }
        OfMonth(month_key) == { k \in counted : k[1] = month_key[2] }
    IN  [month_key \in month_keys |->
            [views |-> SumOfEntries(daily_data, OfMonth(month_key), "views"),
             unique_visitors |->
                 SumOfEntries(daily_data, OfMonth(month_key), "unique_visitors"),
             clones |-> SumOfEntries(daily_data, OfMonth(month_key), "clones"),
             unique_cloners |->
                 SumOfEntries(daily_data, OfMonth(month_key), "unique_cloners"),
             days_count |-> Cardinality(OfMonth(month_key))]]

\* ------------------------------------------------------- storage, as a system
\* The files of a repository that was never collected.
NoFiles == [daily |-> NoFile, referrers |-> NoFile]
Repos == 1 .. NumRepos

\* get_current_utc_timestamp(): a clock reading that grows with every call
\* of the storage layer and every step of a collection.
Stamp == Len(ops) + Len(steps) + 1

\* Inputs of the storage calls: dates on either side of the year's end, at
\* midnight and later in the day; referrer counts with and without a month;
\* daily series with both dates, one date, and an entry without a timestamp.
DailyInputs ==
    { [date |-> DateTime(YearEnd, 0), counters |-> <<5, 2, 3, 1>>],
      [date |-> DateTime(YearEnd, 1), counters |-> <<7, 3, 4, 2>>],
      [date |-> DateTime(NewYear, 0), counters |-> <<5, 2, 3, 1>>] }
OtherMonth == <<FirstYear + 1, 2>>
ReferrerInputs ==
    { [referrers |-> [google |-> 5], month |-> NoMonth],
      [referrers |-> [google |-> 3, bing |-> 2], month |-> NoMonth],
      [referrers |-> [google |-> 3, bing |-> 2], month |-> OtherMonth] }
HistoricalInputs ==
    { [views_daily |-> <<DayData(YearEnd, 4, 2)>>,
       clones_daily |-> <<DayData(YearEnd, 1, 1)>>],
      [views_daily |-> <<>>,
       clones_daily |-> <<DayData(YearEnd, 1, 1), DayData(NewYear, 2, 1)>>],
      [views_daily |-> <<DayData(NewYear, 6, 3), DayData(None, 9, 9), DayData(YearEnd, 4, 2)>>,
       clones_daily |-> <<>>] }

StoreInit ==
    /\ files = [r \in Repos |-> NoFiles]
    /\ today \in {YearEnd, NewYear}
    /\ ops = <<>>

StoreParked ==
    /\ files = [r \in Repos |-> NoFiles]
    /\ today = YearEnd
    /\ ops = <<>>

\* What a call leaves behind: the repository's files and the call's record.
Called(op, repo, args, disk, outcome) ==
    /\ Len(ops) < MaxOps
    /\ files' = [files EXCEPT ![repo] = outcome.files]
    /\ ops' = Append(ops, [op |-> op, repo |-> repo, args |-> args, disk |-> disk,
                           stamp |-> Stamp, before |-> files[repo],
                           after |-> outcome.files, ok |-> outcome.ok])
    /\ UNCHANGED today

CallStoreDailyMetrics(repo, args, disk) ==
    /\ Called("store_daily", repo, args, WriteOutcome(supplied, disk),
              StoreDailyMetrics(files[repo], args.date, args.counters[1], args.counters[2],
                                args.counters[3], args.counters[4], Stamp,
                                WriteOutcome(supplied, disk)))
    /\ UNCHANGED <<clientVars, orchVars, apiVars>>

CallStoreReferrersData(repo, args, disk) ==
    /\ Called("store_referrers", repo, args, WriteOutcome(supplied, disk),
              StoreReferrersData(files[repo], args.referrers, args.month,
                                 DateTime(today, 1),
                                WriteOutcome(supplied, disk)))
    /\ UNCHANGED <<clientVars, orchVars, apiVars>>

CallStoreHistoricalData(repo, args, disk) ==
    /\ Called("store_historical", repo, args, WriteOutcome(supplied, disk),
              StoreHistoricalData(files[repo], args.views_daily, args.clones_daily,
                                  Stamp,
                                WriteOutcome(supplied, disk)))
    /\ UNCHANGED <<clientVars, orchVars, apiVars>>

\* The repositories the storage layer is called for: the first and the last.
CalledRepos == {1, NumRepos}

\* Date ranges asked for: the two months of the calendar, and the last day
\* of the year from midnight on.
RangeInputs ==
    { [start_date |-> DateTime(0, 0), end_date |-> DateTime(2 * DaysInDecember - 1, 0)],
      [start_date |-> DateTime(YearEnd, 0), end_date |-> DateTime(YearEnd, 1)] }
YearInputs == {FirstYear, FirstYear + 1}

\* A call that only reads: the files stay, the call's record holds the result.
Read(op, repo, args, returned) ==
    /\ Len(ops) < MaxOps
    /\ ops' = Append(ops, [op |-> op, repo |-> repo, args |-> args, disk |-> "none",
                           stamp |-> Stamp, before |-> files[repo],
                           after |-> files[repo], ok |-> TRUE, result |-> returned])
    /\ UNCHANGED <<files, today>>

CallGetDateRangeMetrics(repo, args) ==
    /\ Read("get_date_range", repo, args,
            GetDateRangeMetrics(files[repo], args.start_date, args.end_date))
    /\ UNCHANGED <<clientVars, orchVars, apiVars>>

CallGetSummaryStatistics(repo, args) ==
    /\ Read("get_summary", repo, args,
            GetSummaryStatistics(files[repo], args.start_date, args.end_date))
    /\ UNCHANGED <<clientVars, orchVars, apiVars>>

CallCalculateMonthlyAggregates(repo, year) ==
    /\ Read("monthly_aggregates", repo, [year |-> year],
            CalculateMonthlyAggregates(files[repo], year))
    /\ UNCHANGED <<clientVars, orchVars, apiVars>>

StoreNext ==
    \/ \E repo \in CalledRepos, args \in RangeInputs : CallGetDateRangeMetrics(repo, args)
    \/ \E repo \in CalledRepos, args \in RangeInputs : CallGetSummaryStatistics(repo, args)
    \/ \E repo \in CalledRepos, year \in YearInputs :
          CallCalculateMonthlyAggregates(repo, year)
    \/ \E repo \in CalledRepos, args \in DailyInputs, disk \in DiskOutcomes :
          CallStoreDailyMetrics(repo, args, disk)
    \/ \E repo \in CalledRepos, args \in ReferrerInputs, disk \in DiskOutcomes :
          CallStoreReferrersData(repo, args, disk)
    \/ \E repo \in CalledRepos, args \in HistoricalInputs, disk \in DiskOutcomes :
          CallStoreHistoricalData(repo, args, disk)

\* ------------------------------------------------------ traffic collection
\* A response of the traffic API: the 14-day totals and the daily series
\* (under 'views' or 'clones').
ApiTraffic(count, uniques, series) ==
    [count |-> count, uniques |-> uniques, series |-> series]

\* timedelta(days=13): the window starts 13 days before its last day.
WindowSpan == 13
WindowStartFortnightBefore(end_date) == end_date - (WindowSpan + 1)
WindowStart(end_date) == end_date - WindowSpan

\* datetime.fromisoformat(...).date() of an entry's timestamp.
DateOfTimestamp(timestamp) == ParseTimestamp(timestamp).day
\* current_date.strftime('%Y-%m-%dT00:00:00Z')
MidnightTimestamp(date) == date

\* data_by_date[date]: the last entry of the response with that date.
HasDate(daily_data, date) ==
    \E j \in DOMAIN daily_data :
        daily_data[j].timestamp # None /\ DateOfTimestamp(daily_data[j].timestamp) = date
DataByDate(daily_data, date) ==
    LET at == { j \in DOMAIN daily_data :
                  /\ daily_data[j].timestamp # None
                  /\ DateOfTimestamp(daily_data[j].timestamp) = date }
    IN  daily_data[CHOOSE j \in at : \A x \in at : x <= j]

\* The body of the while loop: the entry appended for current_date.
EntryForDroppingUniques(daily_data, current_date) ==
    IF HasDate(daily_data, current_date)
    THEN [DataByDate(daily_data, current_date) EXCEPT !.uniques = 0]
    ELSE DayData(MidnightTimestamp(current_date), 0, 0)
EntryFor(daily_data, current_date) ==
    IF HasDate(daily_data, current_date)
    THEN DataByDate(daily_data, current_date)
    ELSE DayData(MidnightTimestamp(current_date), 0, 0)

\* GitHubDataCollector._fill_missing_days; end_date is the UTC date the call
\* reads from the clock.
FillMissingDays(daily_data, end_date) ==
    LET start_date == WindowStart(end_date)
    IN  [n \in 1 .. (end_date - start_date + 1) |->
            EntryFor(daily_data, start_date + n - 1)]

\* GitHubDataCollector.collect_historical_traffic_data on two good
\* responses; each _fill_missing_days call reads the clock itself.
CollectHistoricalTrafficData(responses, views_date, clones_date) ==
    [views_complete |-> FillMissingDays(responses.views.series, views_date),
     clones_complete |-> FillMissingDays(responses.clones.series, clones_date)]

\* The returned pair together with the dates the two clock readings gave.
HistoricalCall(responses, views_date, clones_date) ==
    [returned |-> CollectHistoricalTrafficData(responses, views_date, clones_date),
     views_date |-> views_date, clones_date |-> clones_date]

\* Nothing collected yet.
NotCollected ==
    [returned |-> [views_complete |-> <<>>, clones_complete |-> <<>>],
     views_date |-> None, clones_date |-> None]

\* Daily entries a response may carry: the day before the window of YearEnd,
\* its first day, its last days (one of them twice, with other counts), the
\* day after, and an entry without a timestamp.
ApiEntries ==
    { DayData(WindowStart(YearEnd) - 1, 2, 1), DayData(WindowStart(YearEnd), 3, 2),
      DayData(YearEnd - 1, 4, 3), DayData(YearEnd, 5, 2), DayData(YearEnd, 6, 4),
      DayData(NewYear, 7, 5), DayData(None, 9, 9) }
RECURSIVE SeqsUpTo(_, _)
SeqsUpTo(S, n) ==
    IF n = 0 THEN {<<>>}
    ELSE LET shorter == SeqsUpTo(S, n - 1)
         IN  shorter \cup { Append(q, e) : q \in shorter, e \in S }
ApiSeries == SeqsUpTo(ApiEntries, MaxApiDays)

RECURSIVE SumOf(_, _)
SumOf(series, field) ==
    IF series = <<>> THEN 0
    ELSE (IF field = "count" THEN Head(series).count ELSE Head(series).uniques)
         + SumOf(Tail(series), field)
\* A response whose totals add up its daily series.
ResponseOf(series) == ApiTraffic(SumOf(series, "count"), SumOf(series, "uniques"), series)

HistInit ==
    /\ api \in [views : {ResponseOf(q) : q \in ApiSeries},
                clones : {ResponseOf(q) : q \in ApiSeries}]
    /\ collected = NotCollected

\* One call of collect_historical_traffic_data; midnight may pass between
\* its two readings of the clock.
CallCollectHistorical(rollover) ==
    /\ collected = NotCollected
    /\ collected' = HistoricalCall(api, today, today + rollover)
    /\ today' = today + rollover
    /\ UNCHANGED <<api, supplied, files, ops>>
    /\ UNCHANGED <<clientVars, orchVars>>

HistNext == \E rollover \in 0 .. MaxRollover : CallCollectHistorical(rollover)

\* ------------------------------------------------------------ orchestrator
\* A last_updated written by an earlier run.
OldStamp == 0

\* Repository.name of the entry at index r of the configuration (the owner is
\* the same for all).
NameOf(cfg, r) == cfg[r].name

\* ConfigManager.get_repository(owner, name): the first entry of that name,
\* 0 for None.
GetRepository(cfg, name) ==
    IF \E r \in DOMAIN cfg : cfg[r].name = name
    THEN CHOOSE r \in DOMAIN cfg :
            /\ cfg[r].name = name
            /\ \A q \in DOMAIN cfg : cfg[q].name = name => r <= q
    ELSE 0

\* ConfigManager.get_enabled_repositories: the enabled repositories, in
\* configuration order (as indices into config).
RECURSIVE EnabledFrom(_, _)
EnabledFrom(cfg, i) ==
    IF i > Len(cfg) THEN <<>>
    ELSE IF cfg[i].enabled THEN <<i>> \o EnabledFrom(cfg, i + 1)
    ELSE EnabledFrom(cfg, i + 1)

EnabledRepositoriesLastFirst(cfg) ==
    LET repositories == EnabledFrom(cfg, 1)
    IN  [i \in 1..Len(repositories) |-> repositories[Len(repositories) + 1 - i]]
EnabledRepositories(cfg) == EnabledFrom(cfg, 1)

\* ConfigManager.update_last_updated
WithLastUpdated(cfg, name, stamp, every) ==
    [r \in DOMAIN cfg |->
        IF cfg[r].name = name /\ (every \/ r = GetRepository(cfg, name))
        THEN [cfg[r] EXCEPT !.last_updated = stamp]
        ELSE cfg[r]]

\* is_new_repo / should_include_historical of collect_all_repositories
ShouldIncludeHistorical(flag, repository) ==
    flag \/ repository.last_updated = None

\* The for loop of collect_all_repositories goes on to the next repository
\* whatever the result of the one just collected.
LoopAfter(success, pos, count) ==
    IF pos < count THEN "next" ELSE "done"

\* `if not success: return False` after store_daily_metrics
AfterStoreCurrentIgnoringFailure(success) == "fetch_referrers"
AfterStoreCurrent(success) ==
    IF success THEN "fetch_referrers" ELSE "failed"

\* `if include_historical:` after the referrers block
AfterReferrers(hist) == IF hist THEN "fetch_historical" ELSE "update"

\* The referrers block: a GitHubAPIError is logged as a warning, an empty
\* result is not stored.
AfterFetchReferrersPropagating(outcome, hist) ==
    IF outcome = "error" THEN "failed"
    ELSE IF outcome = "ok" THEN "store_referrers"
    ELSE AfterReferrers(hist)
AfterFetchReferrers(outcome, hist) ==
    IF outcome = "ok" THEN "store_referrers" ELSE AfterReferrers(hist)

\* The historical block: a GitHubAPIError is logged as a warning.
AfterFetchHistorical(outcome) ==
    IF outcome = "ok" THEN "store_historical" ELSE "update"

Step(name, ok, status) ==
    [repo |-> cur, name |-> NameOf(config, cur), step |-> name, ok |-> ok, status |-> status,
     hist |-> should_include_historical,
     new |-> config[cur].last_updated = None,
     disk |-> "none"]

\* A step that called the storage layer, with what the disk did.
StoreStep(name, ok, disk) == [Step(name, ok, None) EXCEPT !.disk = disk]

\* A step that called a member its class does not define.
UndefinedStep(name) == [Step(name, FALSE, None) EXCEPT !.disk = "undefined"]

\* The failures of the environment met so far by the run: fetches that
\* raised, stores that returned False, and writes that did not reach the disk.
IsFault(s) == s.disk # "undefined" /\ (~s.ok \/ s.disk \in {"fail_open", "fail_write"})
Faults == Cardinality({i \in 1..Len(steps) : IsFault(steps[i])})
MayFail == Faults < MaxFaults

\* collect_repository_data returns `success`; collect_all_repositories
\* records it and moves on.
SingleMode == mode \in {"single", "call_single"}
AllMode == mode \in {"all", "call_all"}

\* `results[repo_key] = success`, repo_key being the repository's "owner/name"
RepoKey(cfg, r) == NameOf(cfg, r)
Recorded(res, repo_key, success) ==
    [k \in DOMAIN res \cup {repo_key} |-> IF k = repo_key THEN success ELSE res[k]]

FinishRecordingSuccess(success) ==
    /\ returns' = [r \in DOMAIN returns \cup {cur} |-> TRUE]
    /\ IF SingleMode
       THEN opc' = "done" /\ position' = position /\ results' = results
       ELSE /\ results' = [k \in DOMAIN results \cup {RepoKey(config, cur)} |-> TRUE]
            /\ opc' = LoopAfter(success, position, Len(EnabledRepositories(config)))
            /\ position' = position + 1
Finish(success) ==
    /\ returns' = [r \in DOMAIN returns \cup {cur} |->
                      IF r = cur THEN success ELSE returns[r]]
    /\ IF SingleMode
       THEN opc' = "done" /\ position' = position /\ results' = results
       ELSE /\ results' = Recorded(results, RepoKey(config, cur), success)
            /\ opc' = LoopAfter(success, position, Len(EnabledRepositories(config)))
            /\ position' = position + 1

\* Either stay inside collect_repository_data at `target`, or return False.
Goto(target) ==
    IF target = "failed"
    THEN Finish(FALSE)
    ELSE /\ opc' = target
         /\ UNCHANGED <<returns, results, position>>

\* ------------------------------------------------- orchestrator, as a system
\* The configurations: NumRepos repositories, or one repository listed
\* twice (get_repositories keeps both entries).
ConfigEntries == [name : {1}, enabled : BOOLEAN, last_updated : {None, OldStamp}]
Configs ==
    { [r \in 1..NumRepos |-> [entries[r] EXCEPT !.name = r]] :
         entries \in [1..NumRepos -> ConfigEntries] }
    \cup
    { <<first, again>> : first \in ConfigEntries, again \in ConfigEntries }

\* collect_current_traffic_data: the totals of the two responses.
TrafficDataOfLastDay(responses) ==
    LET last == responses.views.series[Len(responses.views.series)]
    IN  <<last.count, last.uniques, responses.clones.count, responses.clones.uniques>>
TrafficData(responses) ==
    <<responses.views.count, responses.views.uniques,
      responses.clones.count, responses.clones.uniques>>

\* collect_referrers_data on a response that lists referrers.
ReferrersResponse == [google |-> 5]

\* No report has been made.
NoReport == [total_repositories |-> None]

NoFetch == [traffic_data |-> <<0, 0, 0, 0>>, referrers |-> EmptyDict]

\* Traffic of the collected repositories: views on the day before today and
\* today, clones two days before today.
OrchApis ==
    { [views |-> ResponseOf(<<DayData(YearEnd - 1, 1, 1), DayData(YearEnd, 3, 2)>>),
       clones |-> ResponseOf(<<DayData(YearEnd - 2, 2, 1)>>)] }

OrchInitAt(at) ==
    /\ config \in Configs
    /\ include_historical \in BOOLEAN
    /\ opc = at
    /\ position = 0
    /\ cur = 0
    /\ should_include_historical = FALSE
    /\ returns = <<>>
    /\ results = <<>>
    /\ steps = <<>>
    /\ run = OldStamp + 1
    /\ mode = "none"
    /\ fetched = NoFetch
    /\ report = NoReport
    /\ exit_code = None
    /\ error = "none"
    /\ api \in OrchApis
    /\ collected = NotCollected
    /\ supplied \in SUBSET Undefined

\* main is about to run.
OrchInit == OrchInitAt("main")

\* An orchestrator has been constructed and its methods are about to be
\* called, without main.
CallsInit == OrchInitAt("constructed")

\* The orchestrator of a run that collects nothing (no repository configured).
OrchParked ==
    /\ config = <<>>
    /\ include_historical = FALSE
    /\ opc = "done"
    /\ position = 0
    /\ cur = 0
    /\ should_include_historical = FALSE
    /\ returns = <<>>
    /\ results = <<>>
    /\ steps = <<>>
    /\ run = OldStamp + 1
    /\ mode = "none"
    /\ fetched = NoFetch
    /\ report = NoReport
    /\ exit_code = None
    /\ error = "none"

\* ------------------------------------------------- orchestrator, the report
\* The repositories of a result map whose result is `value`, in the order of
\* the map (the order in which the repositories were first collected).
RECURSIVE ReposWith(_, _, _)
ReposWith(res, value, i) ==
    IF \A r \in DOMAIN res : r < i THEN <<>>
    ELSE IF i \in DOMAIN res /\ res[i] = value THEN <<i>> \o ReposWith(res, value, i + 1)
    ELSE ReposWith(res, value, i + 1)

\* `len(successful_repos) / len(results) if results else 0`
SuccessRateUnguarded(successful, total) == Fraction(successful, total)
SuccessRate(successful, total) ==
    IF total # 0 THEN Fraction(successful, total) ELSE Fraction(0, 1)

\* generate_collection_report (without the time at which it is made)
GenerateCollectionReport(res) ==
    LET successful_repos == ReposWith(res, TRUE, 1)
        failed_repos == ReposWith(res, FALSE, 1)
    IN  [total_repositories |-> Cardinality(DOMAIN res),
         successful_repositories |-> Len(successful_repos),
         failed_repositories |-> Len(failed_repos),
         success_rate |-> SuccessRate(Len(successful_repos), Cardinality(DOMAIN res)),
         successful_repos |-> successful_repos,
         failed_repos |-> failed_repos]

\* The result maps over at most MaxReported repositories.
ResultMaps == UNION { [S -> BOOLEAN] : S \in SUBSET (1 .. MaxReported) }

ReportInit ==
    /\ results \in ResultMaps
    /\ report = NoReport
    /\ config = <<>>
    /\ include_historical = FALSE
    /\ opc = "done"
    /\ position = 0
    /\ cur = 0
    /\ should_include_historical = FALSE
    /\ returns = <<>>
    /\ steps = <<>>
    /\ run = OldStamp + 1
    /\ mode = "none"
    /\ fetched = NoFetch
    /\ exit_code = None
    /\ error = "none"

\* orchestrator.generate_collection_report(results)
CallGenerateCollectionReport ==
    /\ report = NoReport
    /\ report' = GenerateCollectionReport(results)
    /\ UNCHANGED <<config, include_historical, opc, position, cur, should_include_historical,
                   returns, results, steps, run, mode, fetched, exit_code, error>>
    /\ UNCHANGED <<clientVars, storeVars, apiVars>>

ReportNext == CallGenerateCollectionReport

\* ------------------------------------------------------ orchestrator, main
\* validate_configuration: `accessible` are the repositories for which
\* get_repository_info answers.
ValidCount(cfg, accessible) ==
    Cardinality({r \in DOMAIN cfg : cfg[r].enabled /\ cfg[r].name \in accessible})
ValidateConfiguration(has, cfg, accessible) ==
    IF "ConfigManager" \notin has THEN FALSE
    ELSE IF cfg = <<>> THEN FALSE
    ELSE ValidCount(cfg, accessible) > 0

\* What stops main before it collects: the missing GITHUB_TOKEN, the
\* GitHubAPIError of create_api_client, the failed validation.
StartupError(token, authenticated, valid) ==
    IF ~token THEN "no_token"
    ELSE IF ~authenticated THEN "authentication"
    ELSE IF ~valid THEN "validation"
    ELSE "none"

\* `sys.exit(0 if report['failed_repositories'] == 0 else 1)`
ExitCodeAll(rep) == IF rep.failed_repositories = 0 THEN 0 ELSE 1

\* `sys.exit(0 if success else 1)`
ExitCodeSingle(success) == IF success THEN 0 ELSE 1

\* sys.exit(code)
SysExit(code) == opc' = "exited" /\ exit_code' = code

\* main, from the reading of GITHUB_TOKEN to the choice between the run of
\* one repository and the run of all.
Startup(token, authenticated, accessible, validate_only) ==
    /\ opc = "main"
    /\ LET cause == StartupError(token, authenticated,
                                 ValidateConfiguration(supplied, config, accessible))
       IN  /\ error' = cause
           /\ IF cause # "none" THEN SysExit(1)
              ELSE IF validate_only THEN SysExit(0)
              ELSE opc' = "idle" /\ exit_code' = exit_code
    /\ UNCHANGED <<config, include_historical, position, cur, should_include_historical,
                   returns, results, steps, run, mode, fetched, report>>
    /\ UNCHANGED <<clientVars, storeVars, apiVars>>

\* main with --repository naming a repository that is not in the
\* configuration (get_repository returns None) or is disabled.
RejectRepository(name) ==
    /\ opc = "idle"
    /\ LET r == GetRepository(config, name)
       IN  /\ IF r \in DOMAIN config THEN ~config[r].enabled ELSE TRUE
           /\ error' = IF r \in DOMAIN config THEN "disabled" ELSE "not_found"
    /\ mode' = "single"
    /\ SysExit(1)
    /\ UNCHANGED <<config, include_historical, position, cur, should_include_historical,
                   returns, results, steps, run, fetched, report>>
    /\ UNCHANGED <<clientVars, storeVars, apiVars>>

\* The end of main, after collect_repository_data or after
\* collect_all_repositories and the report.
Exit ==
    /\ opc = "done"
    /\ mode \in {"single", "all"}
    /\ IF mode = "single"
       THEN SysExit(ExitCodeSingle(returns[cur])) /\ report' = report
       ELSE /\ report' = GenerateCollectionReport(results)
            /\ SysExit(ExitCodeAll(report'))
    /\ UNCHANGED <<config, include_historical, position, cur, should_include_historical,
                   returns, results, steps, run, mode, fetched, error>>
    /\ UNCHANGED <<clientVars, storeVars, apiVars>>

\* --------------------------------------------- orchestrator, the collection
\* Variables no step of a repository's collection changes.
runVars == <<include_historical, cur, should_include_historical, run, mode, api, supplied,
             today, report, exit_code, error>>

\* collect_all_repositories, up to the for loop: get_enabled_repositories
\* raises AttributeError where ConfigManager does not define it.
EnterCollectAll ==
    /\ results' = <<>>
    /\ IF "ConfigManager" \notin supplied
       THEN opc' = "raised" /\ position' = position
       ELSE IF EnabledRepositories(config) = <<>>
       THEN opc' = "done" /\ position' = position
       ELSE opc' = "next" /\ position' = 1
    /\ UNCHANGED <<config, include_historical, cur, should_include_historical, returns,
                   steps, run, fetched, report, exit_code, error>>
    /\ UNCHANGED <<clientVars, storeVars, apiVars>>

\* main without --repository: collect_all_repositories(args.include_historical)
CollectAllRepositories ==
    /\ opc = "idle"
    /\ mode' = "all"
    /\ EnterCollectAll

\* orchestrator.collect_all_repositories(include_historical), called directly
CallCollectAllRepositories ==
    /\ opc = "constructed"
    /\ mode' = "call_all"
    /\ EnterCollectAll

\* One turn of the for loop, up to the call of collect_repository_data.
BeginRepository ==
    /\ opc = "next"
    /\ LET repositories == EnabledRepositories(config)
           r == repositories[position]
       IN  /\ cur' = r
           /\ should_include_historical' =
                 ShouldIncludeHistorical(include_historical, config[r])
    /\ opc' = "fetch_current"
    /\ fetched' = NoFetch
    /\ collected' = NotCollected
    /\ UNCHANGED <<config, include_historical, position, returns, results, steps, run, mode,
                   report, exit_code, error>>
    /\ UNCHANGED <<clientVars, storeVars, api, supplied>>

\* collect_repository_data(repository, include_historical) is entered for
\* the entry at index r of the configuration.
EnterCollectRepository(r) ==
    /\ cur' = r
    /\ should_include_historical' = include_historical
    /\ opc' = "fetch_current"
    /\ UNCHANGED <<config, include_historical, position, returns, results, steps, run,
                   fetched, report, exit_code, error>>
    /\ UNCHANGED <<clientVars, storeVars, apiVars>>

\* main with --repository naming an enabled repository of the configuration:
\* collect_repository_data is called with args.include_historical.
CollectSingleRepository(name) ==
    /\ opc = "idle"
    /\ GetRepository(config, name) \in DOMAIN config
    /\ config[GetRepository(config, name)].enabled
    /\ mode' = "single"
    /\ EnterCollectRepository(GetRepository(config, name))

\* orchestrator.collect_repository_data(repository, include_historical),
\* called directly with a Repository of the configuration.
CallCollectRepositoryData(r) ==
    /\ opc = "constructed"
    /\ r \in DOMAIN config
    /\ mode' = "call_single"
    /\ EnterCollectRepository(r)

\* collector.collect_current_traffic_data: the traffic, or a GitHubAPIError
\* with the status that ended the get.
FetchCurrentTraffic(status) ==
    /\ opc = "fetch_current"
    /\ status = 200 \/ MayFail
    /\ steps' = Append(steps, Step("fetch_current", status = 200, status))
    /\ fetched' = IF status = 200
                  THEN [fetched EXCEPT !.traffic_data = TrafficData(api)]
                  ELSE fetched
    /\ Goto(IF status = 200 THEN "store_current" ELSE "failed")
    /\ UNCHANGED <<config, runVars, collected, files, ops>>
    /\ UNCHANGED clientVars

\* storage.store_daily_metrics for datetime.now(timezone.utc), and the test
\* of its result.
StoreCurrentTraffic(disk) ==
    /\ opc = "store_current"
    /\ disk = "ok" \/ MayFail
    /\ LET date == DateTime(today, 1)
           write == WriteOutcome(supplied, disk)
           outcome == StoreDailyMetrics(files[NameOf(config, cur)], date,
                          fetched.traffic_data[1], fetched.traffic_data[2],
                          fetched.traffic_data[3], fetched.traffic_data[4], Stamp, write)
       IN  /\ files' = [files EXCEPT ![NameOf(config, cur)] = outcome.files]
           /\ steps' = Append(steps, StoreStep("store_current", outcome.ok, write))
           /\ Goto(AfterStoreCurrent(outcome.ok))
    /\ UNCHANGED <<config, runVars, fetched, collected, ops>>
    /\ UNCHANGED clientVars

\* collector.collect_referrers_data inside its own try block.
FetchReferrers(outcome) ==
    /\ opc = "fetch_referrers"
    /\ outcome # "error" \/ MayFail
    /\ steps' = Append(steps, Step("fetch_referrers", outcome # "error", None))
    /\ fetched' = [fetched EXCEPT
                     !.referrers = IF outcome = "ok" THEN ReferrersResponse ELSE EmptyDict]
    /\ Goto(AfterFetchReferrers(outcome, should_include_historical))
    /\ UNCHANGED <<config, runVars, collected, files, ops>>
    /\ UNCHANGED clientVars

\* storage.store_referrers_data for the current month; its result is not
\* looked at.
StoreReferrers(disk) ==
    /\ opc = "store_referrers"
    /\ disk = "ok" \/ MayFail
    /\ LET write == WriteOutcome(supplied, disk)
           outcome == StoreReferrersData(files[NameOf(config, cur)], fetched.referrers,
                                         NoMonth, DateTime(today, 1), write)
       IN  /\ files' = [files EXCEPT ![NameOf(config, cur)] = outcome.files]
           /\ steps' = Append(steps, StoreStep("store_referrers", outcome.ok, write))
    /\ Goto(AfterReferrers(should_include_historical))
    /\ UNCHANGED <<config, runVars, fetched, collected, ops>>
    /\ UNCHANGED clientVars

\* collector.collect_historical_traffic_data inside its own try block.
FetchHistorical(outcome) ==
    /\ opc = "fetch_historical"
    /\ outcome = "ok" \/ MayFail
    /\ steps' = Append(steps, Step("fetch_historical", outcome = "ok", None))
    /\ collected' = IF outcome = "ok" THEN HistoricalCall(api, today, today) ELSE collected
    /\ Goto(AfterFetchHistorical(outcome))
    /\ UNCHANGED <<config, runVars, fetched, files, ops>>
    /\ UNCHANGED clientVars

\* storage.store_historical_data; its result is not looked at.
StoreHistorical(disk) ==
    /\ opc = "store_historical"
    /\ disk = "ok" \/ MayFail
    /\ LET views_daily == collected.returned.views_complete
           clones_daily == collected.returned.clones_complete
           write == WriteOutcome(supplied, disk)
           outcome == StoreHistoricalData(files[NameOf(config, cur)], views_daily,
                                          clones_daily, Stamp, write)
       IN  /\ files' = [files EXCEPT ![NameOf(config, cur)] = outcome.files]
           /\ steps' = Append(steps, StoreStep("store_historical", outcome.ok, write))
    /\ Goto("update")
    /\ UNCHANGED <<config, runVars, fetched, collected, ops>>
    /\ UNCHANGED clientVars

\* config_manager.update_last_updated, then `return True`; where
\* ConfigManager does not define it, the AttributeError is caught by
\* `except Exception` and the run returns False.  `every` is whether a
\* repository listed more than once is updated in every entry.
UpdateLastUpdated(every) ==
    /\ opc = "update"
    /\ IF "ConfigManager" \in supplied
       THEN /\ steps' = Append(steps, Step("update_last_updated", TRUE, None))
            /\ config' = WithLastUpdated(config, NameOf(config, cur), run, every)
            /\ Finish(TRUE)
       ELSE /\ steps' = Append(steps, UndefinedStep("update_last_updated"))
            /\ config' = config
            /\ Finish(FALSE)
    /\ UNCHANGED <<runVars, fetched, collected, files, ops>>
    /\ UNCHANGED clientVars

\* The steps of collect_all_repositories and collect_repository_data.
CollectionNext ==
    \/ BeginRepository
    \/ \E status \in {200, 401, 404} : FetchCurrentTraffic(status)
    \/ \E disk \in DiskOutcomes : StoreCurrentTraffic(disk)
    \/ \E outcome \in {"ok", "empty", "error"} : FetchReferrers(outcome)
    \/ \E disk \in DiskOutcomes : StoreReferrers(disk)
    \/ \E outcome \in {"ok", "error"} : FetchHistorical(outcome)
    \/ \E disk \in DiskOutcomes : StoreHistorical(disk)
    \/ \E every \in BOOLEAN : UpdateLastUpdated(every)

\* main; --repository names a repository of the configuration or, with 0,
\* one that is not in it.
OrchNext ==
    \/ \E token \in BOOLEAN, authenticated \in BOOLEAN, validate_only \in BOOLEAN :
          \E accessible \in SUBSET (1 .. NumRepos) :
             Startup(token, authenticated, accessible, validate_only)
    \/ \E name \in 0 .. NumRepos : RejectRepository(name)
    \/ Exit
    \/ CollectAllRepositories
    \/ \E name \in 1 .. NumRepos : CollectSingleRepository(name)
    \/ CollectionNext

\* The two methods called on a constructed orchestrator.
CallsNext ==
    \/ CallCollectAllRepositories
    \/ \E r \in 1 .. NumRepos : CallCollectRepositoryData(r)
    \/ CollectionNext

\* ---------------------------------------------------------- specifications
vars == <<clientVars, orchVars, storeVars, apiVars>>

\* One get of a freshly constructed client.
ApiParked ==
    /\ api = [views |-> ResponseOf(<<>>), clones |-> ResponseOf(<<>>)]
    /\ collected = NotCollected

\* Every class defines the members src calls on it.
AllSupplied == supplied = Undefined

Init == ClientInit /\ OrchParked /\ StoreParked /\ ApiParked /\ AllSupplied
Next == ClientNext
Spec == Init /\ [][Next]_vars

\* One run of collect_all_repositories over every configuration.
InitOrch == OrchInit /\ ClientInit /\ StoreParked
NextOrch == OrchNext
SpecOrch == InitOrch /\ [][NextOrch]_vars

\* One direct call of collect_repository_data or collect_all_repositories.
InitCalls == CallsInit /\ ClientInit /\ StoreParked
NextCalls == CallsNext
SpecCalls == InitCalls /\ [][NextCalls]_vars

\* Up to MaxOps calls of the storage layer on an empty data directory, with
\* the DataFileManager of src and with one that defines the members called.
InitStore ==
    StoreInit /\ ClientInit /\ OrchParked /\ ApiParked /\ supplied \in SUBSET {"DataFileManager"}
NextStore == StoreNext
SpecStore == InitStore /\ [][NextStore]_vars

\* One get that is not abandoned: the loop of _make_request goes on as long
\* as it has an iteration to make (every sleep and every request ends).
SpecLive == Init /\ [][Next]_vars /\ WF_vars(\E elapsed \in 0..MaxElapsed : Attempt(elapsed))

\* Up to MaxGets gets of one client instance.
SpecGets == Init /\ [][GetsNext]_vars

\* One report, for every result map.
InitReport == ReportInit /\ ClientInit /\ StoreParked /\ ApiParked /\ AllSupplied
NextReport == ReportNext
SpecReport == InitReport /\ [][NextReport]_vars

\* One collection of the historical series, for every pair of responses.
InitHist == HistInit /\ StoreParked /\ ClientInit /\ OrchParked /\ AllSupplied
NextHist == HistNext
SpecHist == InitHist /\ [][NextHist]_vars

\* ============================================================== properties
\* ------------------------------------------------- helpers on the get's log
IsHttp(e) == e.resp.kind = "http"
IsServerFailure(e) == e.resp.kind = "neterr" \/ (IsHttp(e) /\ e.resp.status >= 500)
IsRateLimit403(e) == IsHttp(e) /\ e.resp.status = 403 /\ e.resp.rate_limited
IsNonRetryable(e) ==
    /\ IsHttp(e)
    /\ e.resp.status # 200
    /\ e.resp.status < 500
    /\ ~IsRateLimit403(e)
Is500(e) == IsHttp(e) /\ e.resp.status = 500
Is200(e) == IsHttp(e) /\ e.resp.status = 200
\* A 200 whose body response.json() returns.
Is200WithBody(e) == Is200(e) /\ e.resp.content = "json"

AllEntries(P(_)) == \A i \in 1..Len(log) : P(log[i])
Count(P(_)) == Cardinality({ i \in 1..Len(log) : P(log[i]) })

RetriesExhaustedError ==
    /\ pc = "raised"
    /\ result.kind = "error"
    /\ result.msg \in {"request failed after retries", "server error"}

\* ---------------------------------------------------------------------- C1
\* C1: a get whose responses are all HTTP >= 500 or network failures issues
\* exactly max_retries + 1 requests, sleeps a backoff of at least 2^attempt
\* and less than 2^attempt + 1 seconds after each of the first max_retries
\* attempts, and then fails with the error raised when no retry is left; no
\* request follows.
C1_ExhaustedRetries ==
    (Len(log) > 0 /\ AllEntries(IsServerFailure)) =>
        /\ Len(log) <= DefaultMaxRetries + 1
        /\ \A i \in 1..Len(log) :
              /\ log[i].attempt = i - 1
              /\ i <= DefaultMaxRetries =>
                    /\ log[i].sleep = "backoff"
                    /\ log[i].dur >= Pow2(i - 1) * TicksPerSec
                    /\ log[i].dur < (Pow2(i - 1) + 1) * TicksPerSec
              /\ (i <= DefaultMaxRetries /\ i < Len(log)) =>
                    log[i + 1].t_request - log[i].t_response >= Pow2(i - 1) * TicksPerSec
              /\ i = DefaultMaxRetries + 1 => log[i].sleep = "none"
        /\ (Len(log) = DefaultMaxRetries + 1) <=> RetriesExhaustedError
        /\ (Len(log) <= DefaultMaxRetries) <=> (pc = "running")

C1_Witness ==
    /\ pc = "raised"
    /\ Len(log) = DefaultMaxRetries + 1
    /\ AllEntries(IsServerFailure)
    /\ Count(Is500) = 2

\* ---------------------------------------------------------------------- C2
\* C2: for every k <= max_retries, k HTTP 500 responses followed by an HTTP
\* 200 with a body make the get return the body of response k + 1 after exactly k backoff
\* sleeps and k + 1 requests; while only 500s have come and k <= max_retries
\* the get is still trying.
C2_RetryThenSuccess ==
    /\ (pc # "idle" /\ Len(log) <= DefaultMaxRetries /\ AllEntries(Is500)) => pc = "running"
    /\ \A k \in 0..DefaultMaxRetries :
          ( /\ Len(log) = k + 1
            /\ \A i \in 1..k : Is500(log[i])
            /\ Is200WithBody(log[k + 1]) ) =>
                /\ pc = "returned"
                /\ result.kind = "ok"
                /\ result.body = k + 1
                /\ Count(LAMBDA e : e.sleep = "backoff") = k
                /\ Count(LAMBDA e : e.sleep = "ratelimit") = 0

C2_Witness ==
    /\ pc = "returned"
    /\ Len(log) = DefaultMaxRetries + 1
    /\ \A i \in 1..DefaultMaxRetries : Is500(log[i])
    /\ Is200WithBody(log[DefaultMaxRetries + 1])
    /\ result.body = DefaultMaxRetries + 1

\* ---------------------------------------------------------------------- C3
\* C3: rate limiting is invisible to the caller: a get never fails when all
\* it has received are rate-limit 403 responses.
C3_RateLimitNeverFails ==
    (Len(log) > 0 /\ AllEntries(IsRateLimit403)) => pc # "raised"

\* ---------------------------------------------------------------------- C4
\* C4: a rate-limit 403 consumes no retry-budget slot: a get that fails for
\* want of retries has seen max_retries + 1 server or network failures,
\* however many rate-limit 403 responses came in between (taken for the gets
\* that received nothing but server or network failures and rate-limit 403s).
C4_RateLimitKeepsBudget ==
    ( /\ RetriesExhaustedError
      /\ Count(IsServerFailure) > 0
      /\ AllEntries(LAMBDA e : IsServerFailure(e) \/ IsRateLimit403(e)) ) =>
        Count(IsServerFailure) = DefaultMaxRetries + 1

\* ---------------------------------------------------------------------- C5
\* C5: after a rate-limit 403 the next request of the same get is not issued
\* before X-RateLimit-Reset + 1 s when the header is present, and not before
\* 60 s after the response when it is absent.
C5_RateLimitWait ==
    \A i \in 1..Len(log) :
        (IsRateLimit403(log[i]) /\ i < Len(log)) =>
            IF log[i].resp.reset # None
            THEN log[i + 1].t_request >= (log[i].resp.reset + 1) * TicksPerSec
            ELSE log[i + 1].t_request >= log[i].t_response + FallbackWaitSecs * TicksPerSec

C5_Witness ==
    /\ Len(log) >= 3
    /\ IsRateLimit403(log[1]) /\ log[1].resp.reset # None
    /\ log[1].resp.reset * TicksPerSec > log[1].t_response
    /\ IsRateLimit403(log[2]) /\ log[2].resp.reset = None

\* ---------------------------------------------------------------------- C6
\* C6: a 404, a 403 that does not signal rate limiting, or any other non-200
\* status below 500 fails the get on that attempt with an error carrying the
\* status code; no request and no sleep follows, whatever budget is left.
C6_NonRetryable ==
    \A i \in 1..Len(log) :
        IsNonRetryable(log[i]) =>
            /\ i = Len(log)
            /\ pc = "raised"
            /\ result.kind = "error"
            /\ result.status = log[i].resp.status
            /\ log[i].sleep = "none"
            /\ now = log[i].t_response

\* The same where the body of the response is empty or a JSON document
\* (the 404 branch does not read the body).
C6_NonRetryableUnlessJsonRaises ==
    \A i \in 1..Len(log) :
        (IsNonRetryable(log[i]) /\ log[i].resp.content # "text") =>
            /\ i = Len(log)
            /\ pc = "raised"
            /\ result.kind = "error"
            /\ result.status = log[i].resp.status
            /\ log[i].sleep = "none"
            /\ now = log[i].t_response

\* ---------------------------------------------------------------------- C7
\* C7: before every attempt the request is held back until at least
\* reset_at + 1 s exactly when remaining < 10 and reset_at is set and in the
\* future; otherwise the pre-emptive pause does not occur.
PauseDue(e) ==
    /\ e.remaining_enter < 10
    /\ e.reset_enter # None
    /\ e.reset_enter * TicksPerSec > e.t_enter

C7_PreemptivePause ==
    \A i \in 1..Len(log) :
        /\ PauseDue(log[i]) <=> log[i].pause > 0
        /\ PauseDue(log[i]) => log[i].t_request >= (log[i].reset_enter + 1) * TicksPerSec
        /\ ~PauseDue(log[i]) => log[i].t_request - log[i].t_enter <= MinSpacingTicks

C7_Witness ==
    \E i \in 1..Len(log) :
        /\ PauseDue(log[i])
        /\ log[i].remaining_enter = BelowLowWater
        /\ \E j \in 1..Len(log) :
              /\ ~PauseDue(log[j])
              /\ log[j].remaining_enter = AtLowWater
              /\ log[j].reset_enter * TicksPerSec > log[j].t_enter

\* ---------------------------------------------- helpers on the run's steps
EnabledSet == { EnabledRepositories(config)[i] : i \in 1..Len(EnabledRepositories(config)) }
StepsOf(r) == SelectSeq(steps, LAMBDA e : e.repo = r)
Did(r, name) == \E i \in 1..Len(steps) : steps[i].repo = r /\ steps[i].step = name
DidOk(r, name) ==
    \E i \in 1..Len(steps) : steps[i].repo = r /\ steps[i].step = name /\ steps[i].ok
Failed(r, name) ==
    \E i \in 1..Len(steps) : steps[i].repo = r /\ steps[i].step = name /\ ~steps[i].ok
Collected(r) == r \in DOMAIN returns
\* The repository's last_updated, as get_repository reads it.
LastUpdatedOf(r) == config[GetRepository(config, NameOf(config, r))].last_updated
\* An entry of the configuration that names r's repository made the update.
UpdatedByName(r) ==
    \E q \in 1..Len(config) :
        NameOf(config, q) = NameOf(config, r) /\ Did(q, "update_last_updated")
\* No entry after r that names r's repository as well has been collected.
LastCollectionOf(r) ==
    \A i \in 1..Len(steps) : steps[i].name = NameOf(config, r) => steps[i].repo <= r
\* No repository is listed twice in the configuration.
ListedOnce ==
    \A r \in 1..Len(config) : \A q \in 1..Len(config) :
        NameOf(config, r) = NameOf(config, q) => r = q
BestEffortSteps ==
    {"fetch_referrers", "store_referrers", "fetch_historical", "store_historical"}

\* ---------------------------------------------------------------------- C8
\* C8: a repository whose current-traffic fetch fails gets the result
\* failure, and the batch goes on: collect_all_repositories returns, and
\* when it does every enabled repository has been processed and has its own
\* entry in the result map (and no other repository has one).
C8_FailureIsolation ==
    /\ AllMode => opc # "raised"
    /\ \A r \in DOMAIN returns :
          (AllMode /\ Failed(r, "fetch_current")) =>
              /\ RepoKey(config, r) \in DOMAIN results
              /\ results[RepoKey(config, r)] = FALSE
    /\ (opc = "done" /\ AllMode) =>
          /\ DOMAIN results = { RepoKey(config, r) : r \in EnabledSet }
          /\ \A r \in EnabledSet : Did(r, "fetch_current")

\* The isolation holds where ConfigManager defines get_enabled_repositories
\* and no repository is listed twice.
C8_IsolationWhereListedOnce ==
    ("ConfigManager" \in supplied /\ ListedOnce) => C8_FailureIsolation

\* ---------------------------------------------------------------------- C9
\* C9: when FetchCurrentTraffic or StoreCurrentTraffic fails, the repository
\* ends in Failed and nothing else is done for it in that run (no referrers
\* or historical fetch or store, no last_updated update); Success is reached
\* only through UpdateLastUpdated.
C9_StateMachine ==
    \A r \in 1..Len(config) :
        /\ (Failed(r, "fetch_current") \/ Failed(r, "store_current")) =>
              /\ Collected(r) /\ returns[r] = FALSE
              /\ \A name \in BestEffortSteps \cup {"update_last_updated"} : ~Did(r, name)
              /\ ~UpdatedByName(r) => config[r].last_updated # run
              /\ ~StepsOf(r)[Len(StepsOf(r))].ok
        /\ (Collected(r) /\ returns[r] = TRUE) =>
              /\ StepsOf(r)[Len(StepsOf(r))].step = "update_last_updated"
              /\ DidOk(r, "fetch_current") /\ DidOk(r, "store_current")
              /\ LastUpdatedOf(r) = run

C9_Witness ==
    /\ opc = "done" /\ mode = "all"
    /\ Failed(1, "store_current")
    /\ returns[1] = FALSE
    /\ Collected(NumRepos) /\ returns[NumRepos] = TRUE

\* --------------------------------------------------------------------- C10
\* C10: once current traffic is fetched and stored, no failure of the
\* referrers step or of the historical step (fetch or store) makes the
\* repository fail: its run updates last_updated and returns success; and a
\* failed referrers step does not keep the historical step from being tried.
ReferrersFailed(r) == Failed(r, "fetch_referrers") \/ Failed(r, "store_referrers")
HistoricalFailed(r) == Failed(r, "fetch_historical") \/ Failed(r, "store_historical")
WantsHistorical(r) == \E i \in 1..Len(steps) : steps[i].repo = r /\ steps[i].hist
\* The writes of a storage step made for r did not reach the disk.
WriteFailed(r, name) ==
    \E i \in 1..Len(steps) :
        steps[i].repo = r /\ steps[i].step = name /\ steps[i].disk \in {"fail_open", "fail_write"}

C10_BestEffort ==
    \A r \in 1..Len(config) :
        (Collected(r) /\ DidOk(r, "fetch_current") /\ DidOk(r, "store_current")) =>
              /\ returns[r] = TRUE
              /\ Did(r, "update_last_updated")
              /\ LastUpdatedOf(r) = run
              /\ Did(r, "fetch_referrers")
              /\ WantsHistorical(r) => Did(r, "fetch_historical")

\* A run of main in which the referrers fetch and the historical store of
\* the first repository failed, and both repositories succeeded.
C10_Witness ==
    /\ opc = "done" /\ mode = "all"
    /\ Collected(1) /\ returns[1] = TRUE
    /\ Failed(1, "fetch_referrers")
    /\ WriteFailed(1, "store_historical")
    /\ LastUpdatedOf(1) = run
    /\ Collected(NumRepos) /\ returns[NumRepos] = TRUE

\* The same for a method called directly, where ConfigManager defines
\* update_last_updated.
C10_BestEffortWhereUpdateDefined ==
    "ConfigManager" \in supplied => C10_BestEffort

\* ------------------------------------------------------------------
\* Views of the stored data used by the storage properties.
Counters(entry) ==
    <<entry.views, entry.unique_visitors, entry.clones, entry.unique_cloners>>

\* The daily-metrics document without its write timestamps.
DailyCounters(repo_files) ==
    LET doc == SafeJsonLoad(repo_files.daily)
    IN  [year \in DOMAIN doc |-> [key \in DOMAIN doc[year] |-> Counters(doc[year][key])]]

OpIndexes == 1 .. Len(ops)
IsCall(i, op) == ops[i].op = op

\* Calls i and i+1 are store_daily calls with identical arguments that both
\* returned True.
RepeatedStoreDaily(i) ==
    /\ i + 1 \in OpIndexes
    /\ IsCall(i, "store_daily") /\ IsCall(i + 1, "store_daily")
    /\ ops[i + 1].repo = ops[i].repo
    /\ ops[i + 1].args = ops[i].args
    /\ ops[i].ok /\ ops[i + 1].ok

\* C15: store_daily is idempotent: after two calls in a row with identical
\* arguments the repository has the same date entries and the same four
\* counters per entry as after the first call; only the write timestamp
\* may differ.
C15_StoreDailyIdempotent ==
    \A i \in OpIndexes :
        RepeatedStoreDaily(i) =>
            DailyCounters(ops[i + 1].after) = DailyCounters(ops[i].after)

\* A repeated call that rewrote the entry with a later timestamp.
C15_Witness ==
    \E i \in OpIndexes :
        /\ RepeatedStoreDaily(i)
        /\ ops[i + 1].after # ops[i].after
        /\ files[ops[i].repo] = ops[i + 1].after

\* C16: store_daily is atomic: a call that fails, at whatever point, leaves
\* the persisted daily-metrics document as it was before the call.
C16_StoreDailyAtomic ==
    \A i \in OpIndexes :
        (IsCall(i, "store_daily") /\ ~ops[i].ok) =>
            SafeJsonLoad(ops[i].after.daily) = SafeJsonLoad(ops[i].before.daily)

\* The dates of the stored daily entries, one per entry: the year-document
\* and the key name the date.
DateOfKey(key) == <<key[1], key[2], key[3]>>
EntriesOfDate(repo_files, date_name) ==
    LET doc == SafeJsonLoad(repo_files.daily)
    IN  { <<year, key>> \in UNION { {y} \X DOMAIN doc[y] : y \in DOMAIN doc } :
            DateOfKey(key) = date_name }
StoredDates(repo_files) ==
    LET doc == SafeJsonLoad(repo_files.daily)
    IN  UNION { { DateOfKey(key) : key \in DOMAIN doc[y] } : y \in DOMAIN doc }
DateName(date) == <<DateOf(date.day).year, DateOf(date.day).month, DateOf(date.day).day>>

\* C17: upsert is last-write-wins: after a successful store_daily for date D
\* with counters (v, u, c, k) the repository holds exactly one record for D
\* and its counters are (v, u, c, k), whatever was stored for D before; and
\* no repository ever holds two records for one date.
C17_LastWriteWins ==
    /\ \A i \in OpIndexes :
         (IsCall(i, "store_daily") /\ ops[i].ok) =>
            LET found == EntriesOfDate(ops[i].after, DateName(ops[i].args.date))
                doc == SafeJsonLoad(ops[i].after.daily)
            IN  /\ Cardinality(found) = 1
                /\ \A e \in found : Counters(doc[e[1]][e[2]]) = ops[i].args.counters
    /\ \A repo \in Repos : \A date_name \in StoredDates(files[repo]) :
         Cardinality(EntriesOfDate(files[repo], date_name)) = 1

\* A successful store_daily replaced a record of the same date that held
\* other counters.
C17_Witness ==
    \E i \in OpIndexes :
        /\ IsCall(i, "store_daily") /\ ops[i].ok
        /\ \E e \in EntriesOfDate(ops[i].before, DateName(ops[i].args.date)) :
             Counters(SafeJsonLoad(ops[i].before.daily)[e[1]][e[2]]) # ops[i].args.counters
        /\ \E e \in EntriesOfDate(ops[i].after, DateName(ops[i].args.date)) :
             Counters(SafeJsonLoad(ops[i].after.daily)[e[1]][e[2]]) = ops[i].args.counters

\* The month a store_referrers call wrote to, and the count it passed for a
\* referrer (0 when the call did not name it).
MonthKeyOf(i) ==
    IF ops[i].args.month = NoMonth
    THEN FormatMonthForDataKey(DateTime(today, 1))
    ELSE ops[i].args.month
PassedCount(i, name) == DictGet(ops[i].args.referrers, name, 0)
IsReferrersCall(i, repo, month) ==
    IsCall(i, "store_referrers") /\ ops[i].repo = repo /\ MonthKeyOf(i) = month

\* Sum of the counts passed for `name` by the first n calls for (repo, month).
RECURSIVE PassedSum(_, _, _, _)
PassedSum(repo, month, name, n) ==
    IF n = 0 THEN 0
    ELSE PassedSum(repo, month, name, n - 1)
         + (IF IsReferrersCall(n, repo, month) THEN PassedCount(n, name) ELSE 0)

StoredCount(repo_files, month, name) ==
    DictGet(DictGet(LoadReferrersData(repo_files), month, EmptyDict), name, 0)
ReferrerNames == {"google", "bing"}
ReferrerMonths == {FormatMonthForDataKey(DateTime(today, 1)), OtherMonth}

\* C18: store_referrers is additive: every call that returns True leaves, for
\* each referrer of the month, the count stored before plus the count passed
\* (an existing count is never overwritten); and while every call for the
\* repository has returned True, the stored count of a referrer is the sum of
\* the counts passed for it over all calls for that repository and month.
C18_ReferrersAdditive ==
    /\ \A i \in OpIndexes : \A name \in ReferrerNames :
         (IsCall(i, "store_referrers") /\ ops[i].ok) =>
            StoredCount(ops[i].after, MonthKeyOf(i), name)
              = StoredCount(ops[i].before, MonthKeyOf(i), name) + PassedCount(i, name)
    /\ \A repo \in Repos :
         (\A i \in OpIndexes :
             (IsCall(i, "store_referrers") /\ ops[i].repo = repo) => ops[i].ok) =>
            \A month \in ReferrerMonths, name \in ReferrerNames :
                StoredCount(files[repo], month, name)
                  = PassedSum(repo, month, name, Len(ops))

\* 5 stored, then 3 for the same referrer and month: 8 is stored.
C18_Witness ==
    \E i \in OpIndexes :
        /\ i + 1 \in OpIndexes
        /\ IsReferrersCall(i, ops[i].repo, MonthKeyOf(i)) /\ ops[i].ok
        /\ IsReferrersCall(i + 1, ops[i].repo, MonthKeyOf(i)) /\ ops[i + 1].ok
        /\ PassedCount(i, "google") = 5 /\ PassedCount(i + 1, "google") = 3
        /\ StoredCount(files[ops[i].repo], MonthKeyOf(i), "google") = 8

\* The (views, unique_visitors) pairs stored for a date.
ViewsOf(repo_files, date_name) ==
    LET doc == SafeJsonLoad(repo_files.daily)
    IN  { <<doc[e[1]][e[2]].views, doc[e[1]][e[2]].unique_visitors>> :
            e \in EntriesOfDate(repo_files, date_name) }

\* C19: store_historical never overwrites stored views data: for every date
\* that has a record before the call, the record is still there after the call
\* with the views and unique_visitors it had (calls during which a write
\* broke off midway are left to C16).
C19_ViewsNeverOverwritten ==
    \A i \in OpIndexes :
        (IsCall(i, "store_historical") /\ ops[i].disk # "fail_write") =>
            \A date_name \in StoredDates(ops[i].before) :
                ViewsOf(ops[i].after, date_name) = ViewsOf(ops[i].before, date_name)

\* A views entry arrived for a date that already had a record with other
\* views values, and the record kept them.
C19_Witness ==
    \E i \in OpIndexes :
        /\ IsCall(i, "store_historical") /\ ops[i].disk = "ok"
        /\ \E j \in DOMAIN ops[i].args.views_daily :
             LET day_data == ops[i].args.views_daily[j]
             IN  /\ day_data.timestamp # None
                 /\ LET date_name == DateName(ParseTimestamp(day_data.timestamp))
                    IN  /\ ViewsOf(ops[i].before, date_name) # {}
                        /\ <<day_data.count, day_data.uniques>>
                             \notin ViewsOf(ops[i].before, date_name)
                        /\ ViewsOf(ops[i].after, date_name)
                             = ViewsOf(ops[i].before, date_name)

\* The stored records of a date, and their counters.
RecordsOf(repo_files, date_name) ==
    LET doc == SafeJsonLoad(repo_files.daily)
    IN  { doc[e[1]][e[2]] : e \in EntriesOfDate(repo_files, date_name) }
CountersOf(repo_files, date_name) ==
    { Counters(record) : record \in RecordsOf(repo_files, date_name) }

\* The entries of a daily series that carry a timestamp, and their dates.
Dated(series) == { j \in DOMAIN series : series[j].timestamp # None }
DateNameOf(day_data) == DateName(ParseTimestamp(day_data.timestamp))

\* The three cases of the merge, for clones entry l of call i.
ViewsAndClonesForNewDate(i, j, l) ==
    /\ j \in Dated(ops[i].args.views_daily)
    /\ DateNameOf(ops[i].args.views_daily[j]) = DateNameOf(ops[i].args.clones_daily[l])
    /\ RecordsOf(ops[i].before, DateNameOf(ops[i].args.clones_daily[l])) = {}
ClonesForStoredDate(i, l) ==
    RecordsOf(ops[i].before, DateNameOf(ops[i].args.clones_daily[l])) # {}
ClonesOnlyForNewDate(i, l) ==
    /\ RecordsOf(ops[i].before, DateNameOf(ops[i].args.clones_daily[l])) = {}
    /\ \A j \in Dated(ops[i].args.views_daily) :
         DateNameOf(ops[i].args.views_daily[j]) # DateNameOf(ops[i].args.clones_daily[l])

\* C20: the historical merge is asymmetric.  A views entry (v, u) and a
\* clones entry (c, k) for one date without a record leave exactly one record
\* (v, u, c, k); a clones entry for a date with a record changes only clones
\* and unique_cloners of that record; a clones entry for a date with no
\* record and no views entry creates a record with views = 0 and
\* unique_visitors = 0.
C20_MergeAsymmetry ==
    \A i \in OpIndexes :
        (IsCall(i, "store_historical") /\ ops[i].disk = "ok") =>
            \A l \in Dated(ops[i].args.clones_daily) :
                LET clones == ops[i].args.clones_daily[l]
                    date_name == DateNameOf(clones)
                IN  /\ \A j \in DOMAIN ops[i].args.views_daily :
                         ViewsAndClonesForNewDate(i, j, l) =>
                            CountersOf(ops[i].after, date_name)
                              = { <<ops[i].args.views_daily[j].count,
                                    ops[i].args.views_daily[j].uniques,
                                    clones.count, clones.uniques>> }
                    /\ ClonesForStoredDate(i, l) =>
                         RecordsOf(ops[i].after, date_name)
                           = { [record EXCEPT !.clones = clones.count,
                                              !.unique_cloners = clones.uniques] :
                                 record \in RecordsOf(ops[i].before, date_name) }
                    /\ ClonesOnlyForNewDate(i, l) =>
                         CountersOf(ops[i].after, date_name)
                           = { <<0, 0, clones.count, clones.uniques>> }

\* One call merged views and clones into a new record; a later call updated
\* the clones of that record, leaving views that are not 0, and created a
\* clones-only record for another date.
C20_Witness ==
    \E i \in OpIndexes, k \in OpIndexes :
        /\ i < k
        /\ IsCall(i, "store_historical") /\ ops[i].disk = "ok"
        /\ IsCall(k, "store_historical") /\ ops[k].disk = "ok"
        /\ \E l \in Dated(ops[i].args.clones_daily), j \in DOMAIN ops[i].args.views_daily :
             ViewsAndClonesForNewDate(i, j, l)
        /\ \E l \in Dated(ops[k].args.clones_daily) :
             /\ ClonesForStoredDate(k, l)
             /\ \E record \in RecordsOf(ops[k].after, DateNameOf(ops[k].args.clones_daily[l])) :
                  record.views > 0
        /\ \E l \in Dated(ops[k].args.clones_daily) : ClonesOnlyForNewDate(k, l)

\* ------------------------------------------------------------------
\* A series covers the 14 days ending on `end_date`: 14 entries, one per day
\* in ascending order, each one day after the one before, the last on
\* end_date.
CoversFortnight(series, end_date) ==
    /\ Len(series) = 14
    /\ \A n \in 1 .. Len(series) : series[n].timestamp # None
    /\ \A n \in 1 .. Len(series) - 1 :
         DateOfTimestamp(series[n + 1].timestamp) = DateOfTimestamp(series[n].timestamp) + 1
    /\ DateOfTimestamp(series[Len(series)].timestamp) = end_date

\* C14: whatever the API reports (any subset of the days, in any order,
\* or none), each series returned by collect_historical has exactly 14
\* entries, strictly ascending by timestamp, on consecutive days, the last
\* on the current UTC date.
C14_GapFillShape ==
    collected # NotCollected =>
        /\ CoversFortnight(collected.returned.views_complete, collected.views_date)
        /\ CoversFortnight(collected.returned.clones_complete, collected.clones_date)
        /\ collected.clones_date = today

\* The views response listed a later day before an earlier one and a day
\* outside the window, the clones response nothing; both series came back
\* complete.
C14_Witness ==
    /\ collected # NotCollected
    /\ Len(api.views.series) = 2
    /\ api.views.series[1].timestamp = YearEnd
    /\ api.views.series[2].timestamp = WindowStart(YearEnd) - 1
    /\ api.clones.series = <<>>
    /\ collected.views_date = YearEnd
    /\ collected.returned.views_complete[14] = api.views.series[1]
    /\ Len(collected.returned.clones_complete) = 14

\* ------------------------------------------------------------------
\* The repository had no last_updated when its collection began.
WasNew(r) == \E i \in 1..Len(steps) : steps[i].repo = r /\ steps[i].new

\* C11: whenever the orchestrator collects a repository that has no
\* last_updated, the historical backfill is attempted even if
\* include-historical was not requested, on the run-all path and on the
\* single-repository path: no new repository gets to the last_updated update
\* without its historical fetch.
C11_NewRepoBackfill ==
    \A i \in 1..Len(steps) :
        (steps[i].step = "update_last_updated" /\ steps[i].new) =>
            Did(steps[i].repo, "fetch_historical")

\* C12: last_updated is written only by the orchestrator's update step and
\* only in a run that succeeds for the repository: a step changes a
\* repository's last_updated only by finishing that repository with
\* success, every repository finished with success has this run's stamp, and
\* one finished with failure has what it had (a new one stays new).
C12_LastUpdatedFrame ==
    [][ \A r \in 1..Len(config) :
          /\ config'[r].last_updated # config[r].last_updated =>
                /\ opc = "update" /\ NameOf(config, cur) = NameOf(config, r)
                /\ cur \in DOMAIN returns' /\ returns'[cur]
          /\ (r \in DOMAIN returns' /\ r \notin DOMAIN returns) =>
                IF returns'[r]
                THEN LastUpdatedOf(r)' = run
                ELSE config'[r].last_updated = config[r].last_updated ]_vars

\* A new repository failed and is still new, after another one succeeded
\* and got this run's stamp.
C12_Witness ==
    /\ opc = "done" /\ mode = "all"
    /\ Collected(1) /\ returns[1] = TRUE /\ config[1].last_updated = run
    /\ Collected(NumRepos) /\ returns[NumRepos] = FALSE
    /\ WasNew(NumRepos) /\ config[NumRepos].last_updated = None

\* The trailing 14-day window of a date, and what a response reports for a
\* day of it (0 if it reports nothing).
Window(end_date) == WindowStart(end_date) .. end_date
Reported(response, date) == EntryFor(response.series, date)
AnyWriteFailed(r) == \E name \in {"store_current", "store_referrers", "store_historical"} : WriteFailed(r, name)

\* C13: end-to-end backfill of a new repository: after one collection with
\* the historical step, the year-document holds exactly 14 entries, one per
\* date of the trailing window, each with the views and unique_visitors the
\* views API reports for that date and the clones and unique_cloners the
\* clones API reports for it (0 if unreported), and last_updated is set.
C13_EndToEndBackfill ==
    \A r \in DOMAIN returns :
        (returns[r] /\ WasNew(r) /\ Did(r, "store_historical") /\ ~AnyWriteFailed(r)) =>
            LET doc == LoadDailyData(files[NameOf(config, r)], DateOf(today).year)
            IN  /\ DOMAIN doc = { FormatDateForDataKey(DateTime(d, 0)) : d \in Window(today) }
                /\ Cardinality(DOMAIN doc) = 14
                /\ \A d \in Window(today) :
                     Counters(doc[FormatDateForDataKey(DateTime(d, 0))])
                       = << Reported(api.views, d).count, Reported(api.views, d).uniques,
                            Reported(api.clones, d).count, Reported(api.clones, d).uniques >>
                /\ LastUpdatedOf(r) = run

\* --------------------------------------------------------------------- C21
\* A Python bool read as a number (True == 1, False == 0).
BoolAsInt(b) == IF b THEN 1 ELSE 0

\* The dates that have a daily entry after call i and had none before it.
CreatedDates(i) == StoredDates(ops[i].after) \ StoredDates(ops[i].before)

\* C21, as stated: store_historical returns the number of daily entries it
\* created during the call (taken here for the calls whose writes all reach
\* the disk).
C21_ReturnsCountWritten ==
    \A i \in OpIndexes :
        (IsCall(i, "store_historical") /\ ops[i].disk = "ok") =>
            BoolAsInt(ops[i].ok) = Cardinality(CreatedDates(i))

\* The writes of call i failed (open() or json.dump raised).
WritesFailed(i) == ops[i].disk \in {"fail_open", "fail_write"}
\* The clones series of call i has a day that had no entry before the call.
NewClonesDay(i) ==
    \E l \in Dated(ops[i].args.clones_daily) :
        RecordsOf(ops[i].before, DateNameOf(ops[i].args.clones_daily[l])) = {}

\* C21, amended: store_historical returns a bool, not a count.  A call that
\* returns False created no daily entry.  A call whose writes do not fail
\* returns True exactly when it created at least one daily entry.  A call
\* whose writes fail creates no entry, and returns True all the same when
\* its clones series has a day without an entry (the clones loop counts the
\* day before it writes and does not look at the result of the write), and
\* False when it has no clones series.
C21_ReturnsWhetherWritten ==
    \A i \in OpIndexes :
        IsCall(i, "store_historical") =>
            /\ ops[i].ok \in BOOLEAN
            /\ ~ops[i].ok => CreatedDates(i) = {}
            /\ ~WritesFailed(i) => (ops[i].ok <=> CreatedDates(i) # {})
            /\ WritesFailed(i) =>
                  /\ CreatedDates(i) = {}
                  /\ NewClonesDay(i) => ops[i].ok
                  /\ ops[i].args.clones_daily = <<>> => ~ops[i].ok

\* A call created two entries and returned True, and a call whose writes
\* failed created none and returned True as well.
C21_Witness ==
    \E i \in OpIndexes, k \in OpIndexes :
        /\ IsCall(i, "store_historical") /\ IsCall(k, "store_historical")
        /\ ops[i].disk = "ok"
        /\ Cardinality(CreatedDates(i)) = 2 /\ ops[i].ok
        /\ WritesFailed(k) /\ NewClonesDay(k)
        /\ CreatedDates(k) = {} /\ ops[k].ok

\* --------------------------------------------------------------------- C22
\* The stored daily records of a repository, each as the day it is for and
\* its four counters.
StoredRecords(repo_files) ==
    LET doc == SafeJsonLoad(repo_files.daily)
    IN  UNION { { <<DayNumber(key[1], key[2], key[3]), Counters(doc[y][key])>> :
                    key \in DOMAIN doc[y] } : y \in DOMAIN doc }
StoredRecordsInRange(repo_files, start_date, end_date) ==
    { record \in StoredRecords(repo_files) :
        /\ DateTimeLeq(start_date, DateTime(record[1], 0))
        /\ DateTimeLeq(DateTime(record[1], 0), end_date) }

\* The records a read returned, in the same form.
ReturnedRecords(metrics) ==
    { <<metrics[j].date.day, Counters(metrics[j])>> : j \in DOMAIN metrics }
AscendingByDate(metrics) ==
    \A j \in DOMAIN metrics : \A k \in DOMAIN metrics :
        j < k => metrics[j].date.day < metrics[k].date.day

\* C22: get_daily_range returns exactly the stored daily records whose date
\* lies in [start, end], in ascending order of date; so a record stored by a
\* successful store_daily for a date of the range is in the result.
C22_RangeRoundTrip ==
    \A i \in OpIndexes :
        IsCall(i, "get_date_range") =>
            /\ ReturnedRecords(ops[i].result)
                 = StoredRecordsInRange(ops[i].before, ops[i].args.start_date,
                                        ops[i].args.end_date)
            /\ AscendingByDate(ops[i].result)

\* --------------------------------------------------------------------- C23
\* The sum of counter number c (1..4) over a set of stored records.
RECURSIVE SumOfRecords(_, _)
SumOfRecords(records, c) ==
    IF records = {} THEN 0
    ELSE LET record == CHOOSE x \in records : TRUE
         IN  record[2][c] + SumOfRecords(records \ {record}, c)

\* The day of the stored record with the most views, the earliest such day.
PeakRecord(records) ==
    CHOOSE x \in records :
        \A other \in records :
            \/ other[2][1] < x[2][1]
            \/ (other[2][1] = x[2][1] /\ x[1] <= other[1])

\* C23: summary_statistics over [start, end] reports the sums of the four
\* counters over the stored daily records of the range and their number as
\* days_with_data; its peak day is the earliest record with the most views;
\* with no stored record in the range it reports zero totals, zero averages
\* and no peak day.
C23_SummaryTotals ==
    \A i \in OpIndexes :
        IsCall(i, "get_summary") =>
            LET records == StoredRecordsInRange(ops[i].before, ops[i].args.start_date,
                                                ops[i].args.end_date)
                summary == ops[i].result
            IN  /\ summary.total_views = SumOfRecords(records, 1)
                /\ summary.total_unique_visitors = SumOfRecords(records, 2)
                /\ summary.total_clones = SumOfRecords(records, 3)
                /\ summary.total_unique_cloners = SumOfRecords(records, 4)
                /\ summary.days_with_data = Cardinality(records)
                /\ IF records = {}
                   THEN /\ summary.average_daily_views.num = 0
                        /\ summary.average_daily_visitors.num = 0
                        /\ summary.peak_views_day = None
                   ELSE /\ summary.peak_views_day = PeakRecord(records)[1]
                        /\ summary.peak_views_count = PeakRecord(records)[2][1]

\* --------------------------------------------------------------------- C24
\* The stored records of a month.
RecordsOfMonth(repo_files, year, month) ==
    { record \in StoredRecords(repo_files) :
        DateOf(record[1]).year = year /\ DateOf(record[1]).month = month }
MonthsWithRecords(repo_files, year) ==
    { month \in 1 .. 12 : RecordsOfMonth(repo_files, year, month) # {} }

\* C24: monthly_aggregates(owner, repo, year) has an entry YYYY-MM exactly
\* for the months of the year with a stored daily record; its four totals
\* are the sums of the month's daily counters and its day count is the
\* number of stored days of the month.
C24_MonthlyAggregates ==
    \A i \in OpIndexes :
        IsCall(i, "monthly_aggregates") =>
            LET year == ops[i].args.year
                monthly == ops[i].result
            IN  /\ DOMAIN monthly
                     = { <<year, month>> : month \in MonthsWithRecords(ops[i].before, year) }
                /\ \A month \in MonthsWithRecords(ops[i].before, year) :
                     LET records == RecordsOfMonth(ops[i].before, year, month)
                         totals == monthly[<<year, month>>]
                     IN  /\ totals.views = SumOfRecords(records, 1)
                         /\ totals.unique_visitors = SumOfRecords(records, 2)
                         /\ totals.clones = SumOfRecords(records, 3)
                         /\ totals.unique_cloners = SumOfRecords(records, 4)
                         /\ totals.days_count = Cardinality(records)

\* --------------------------------------------------------------------- C25
\* What the API guarantees of a count and its uniques.
ValidPair(count, uniques) == 0 <= uniques /\ uniques <= count
ValidSeries(series) == \A j \in DOMAIN series : ValidPair(series[j].count, series[j].uniques)

\* Call i passed counters as the API reports them.
PassedValidCounters(i) ==
    /\ IsCall(i, "store_daily") =>
          /\ ValidPair(ops[i].args.counters[1], ops[i].args.counters[2])
          /\ ValidPair(ops[i].args.counters[3], ops[i].args.counters[4])
    /\ IsCall(i, "store_historical") =>
          /\ ValidSeries(ops[i].args.views_daily)
          /\ ValidSeries(ops[i].args.clones_daily)

\* C25: counter invariant: when every count and uniques pair passed to the
\* stores satisfies 0 <= uniques <= count, every stored daily record has
\* 0 <= unique_visitors <= views and 0 <= unique_cloners <= clones, after
\* any sequence of stores of current traffic and historical merges.
C25_CounterInvariant ==
    (\A i \in OpIndexes : PassedValidCounters(i)) =>
        \A repo \in Repos : \A record \in StoredRecords(files[repo]) :
            /\ ValidPair(record[2][1], record[2][2])
            /\ ValidPair(record[2][3], record[2][4])

\* A record written by store_daily had its clones pair replaced by a
\* historical merge with fewer clones than it had unique cloners.
C25_Witness ==
    \E i \in OpIndexes :
        /\ i + 1 \in OpIndexes
        /\ IsCall(i, "store_daily") /\ ops[i].ok
        /\ IsCall(i + 1, "store_historical") /\ ops[i + 1].disk = "ok"
        /\ ops[i + 1].repo = ops[i].repo
        /\ files[ops[i].repo] = ops[i + 1].after
        /\ \E l \in Dated(ops[i + 1].args.clones_daily) :
             LET day_data == ops[i + 1].args.clones_daily[l]
                 counters == ops[i].args.counters
             IN  /\ DateNameOf(day_data) = DateName(ops[i].args.date)
                 /\ day_data.count < counters[4]
                 /\ CountersOf(files[ops[i].repo], DateNameOf(day_data))
                      = { <<counters[1], counters[2], day_data.count, day_data.uniques>> }

\* --------------------------------------------------------------------- C26
StepIndexes == 1 .. Len(steps)

\* Step j of the run was made for its repository after that repository's
\* current traffic had been fetched and then stored, both with success.
AfterCurrentTraffic(j) ==
    \E k \in 1..(j - 1) :
        /\ steps[k].repo = steps[j].repo /\ steps[k].step = "store_current" /\ steps[k].ok
        /\ \E i \in 1..(k - 1) :
              steps[i].repo = steps[j].repo /\ steps[i].step = "fetch_current" /\ steps[i].ok

\* C26: repositories are processed in configuration order (from each step
\* to the next the repository stays or moves forward in the configuration),
\* one repository is finished (it has its result) before a step of the next
\* is made, and no referrers or historical fetch or store is made for a
\* repository before its current-traffic fetch and its current-traffic store
\* have both succeeded.
C26_Ordering ==
    /\ \A i \in StepIndexes :
          i < Len(steps) =>
             /\ steps[i].repo <= steps[i + 1].repo
             /\ steps[i].repo < steps[i + 1].repo => Collected(steps[i].repo)
    /\ \A j \in StepIndexes :
          steps[j].step \in BestEffortSteps => AfterCurrentTraffic(j)

\* A run of all repositories that made the referrers and historical steps
\* for the first repository and then for the last.
C26_Witness ==
    /\ opc = "done" /\ mode = "all"
    /\ Cardinality(EnabledSet) = NumRepos
    /\ Did(1, "store_referrers") /\ Did(1, "store_historical")
    /\ Did(NumRepos, "store_referrers") /\ Did(NumRepos, "store_historical")

\* --------------------------------------------------------------------- C27
Succeeded(res) == { r \in DOMAIN res : res[r] }
FailedIn(res) == { r \in DOMAIN res : ~res[r] }
Listed(repos) == { repos[i] : i \in DOMAIN repos }

\* C27: for any result map, total_repositories = successful_repositories +
\* failed_repositories, failed_repos lists exactly the repositories whose
\* result is failure and successful_repos exactly those whose result is
\* success, and success_rate is successful/total, and 0 when the map is
\* empty.
C27_ReportConsistent ==
    report # NoReport =>
        /\ report.total_repositories = Cardinality(DOMAIN results)
        /\ report.total_repositories
             = report.successful_repositories + report.failed_repositories
        /\ Listed(report.failed_repos) = FailedIn(results)
        /\ Listed(report.successful_repos) = Succeeded(results)
        /\ report.successful_repositories = Cardinality(Succeeded(results))
        /\ report.failed_repositories = Cardinality(FailedIn(results))
        /\ Len(report.failed_repos) = report.failed_repositories
        /\ Len(report.successful_repos) = report.successful_repositories
        /\ report.success_rate.den # 0
        /\ IF results = <<>>
           THEN report.success_rate.num = 0
           ELSE report.success_rate.num * report.total_repositories
                  = report.successful_repositories * report.success_rate.den

\* A report of a map with successes and failures, the failures more than
\* the successes.
C27_Witness ==
    /\ report # NoReport
    /\ Succeeded(results) # {}
    /\ Cardinality(FailedIn(results)) > Cardinality(Succeeded(results))

\* A report of the empty map.
C27_WitnessEmpty == report # NoReport /\ results = <<>>

\* --------------------------------------------------------------------- C28
AllCollectedSucceeded == \A r \in DOMAIN returns : returns[r]

\* C28: the process exits with 0 exactly when no configuration or
\* authentication error stopped it and every collected repository
\* succeeded; it exits with a non-zero code when a repository's result is
\* failure, and when the token is missing, the authentication fails, the
\* validation of the configuration fails or the repository asked for is
\* not an enabled repository of the configuration.
C28_ExitCode ==
    /\ opc # "exited" => exit_code = None
    /\ opc = "exited" =>
          /\ exit_code \in {0, 1}
          /\ exit_code = 0 <=> (error = "none" /\ AllCollectedSucceeded)
          /\ (~AllCollectedSucceeded \/ error # "none") => exit_code # 0
          /\ error # "none" => returns = <<>> /\ steps = <<>>

\* The exit code is right where no repository is listed twice.
C28_ExitCodeWhereListedOnce == ListedOnce => C28_ExitCode

\* --------------------------------------------------------------------- C29
\* C29: an Unauthorized outcome is fatal to the whole run: after a step
\* that GitHub answered with 401 no further step is made in that run, and
\* a failed authentication at start-up ends the run before any repository
\* is collected; a NotFound outcome fails the repository concerned.
C29_UnauthorizedIsFatal ==
    /\ \A i \in StepIndexes : steps[i].status = 401 => i = Len(steps)
    /\ error = "authentication" => steps = <<>> /\ returns = <<>> /\ opc = "exited"
    /\ \A i \in StepIndexes :
          (steps[i].status = 404 /\ Collected(steps[i].repo)) =>
              returns[steps[i].repo] = FALSE

\* --------------------------------------------------------------------- C30
StorageSteps == {"store_current", "store_referrers", "store_historical"}

\* C30: a storage operation never raises: store_daily, store_referrers and
\* store_historical return failure when a write (or a read) fails, and the
\* batch goes on: a step whose writes did not reach the disk returned
\* failure, and when collect_all_repositories returns every enabled
\* repository has been processed.
C30_StorageFailuresReturned ==
    /\ \A i \in StepIndexes :
          (steps[i].step \in StorageSteps /\ steps[i].disk \in {"fail_open", "fail_write"}) =>
              ~steps[i].ok
    /\ (opc = "done" /\ AllMode) => DOMAIN returns = EnabledSet

\* --------------------------------------------------------------------- C31
\* C31: after a get returns successfully, rate_limit_remaining and
\* rate_limit_reset are the X-RateLimit-Remaining and X-RateLimit-Reset
\* values carried by the headers of the 200 response that ended it, and
\* reading the headers changed nothing else of the client: the clock and
\* last_request_time are those of the response, the loop variable is that
\* of the request, the result is the body of that response.
C31_ObserveOnSuccess ==
    pc = "returned" =>
        LET e == log[Len(log)]
        IN  /\ Is200WithBody(e)
            /\ e.resp.remaining # None => rate_limit_remaining = e.resp.remaining
            /\ e.resp.reset # None => rate_limit_reset = e.resp.reset
            /\ now = e.t_response
            /\ last_request_time = e.t_response
            /\ attempt = e.attempt
            /\ result = Returned(Len(log))

\* A get that returned on a 200 whose headers carried a quota and a reset
\* time other than those the client held when it made the request.
C31_Witness ==
    /\ pc = "returned"
    /\ Len(log) > 1
    /\ LET e == log[Len(log)]
       IN  /\ e.resp.remaining # None /\ e.resp.remaining # e.remaining_enter
           /\ e.resp.reset # None /\ e.resp.reset # e.reset_enter
           /\ e.reset_enter # None

\* --------------------------------------------------------------------- C36
\* C36: after any HTTP response (200, 401, 403, 404 or 500),
\* rate_limit_remaining is that response's X-RateLimit-Remaining value, or
\* 5000 when the header is absent, and rate_limit_reset is the response's
\* X-RateLimit-Reset value, or its previous value when that header is absent.
C36_BookkeepingOnEveryResponse ==
    (Len(log) > 0 /\ IsHttp(log[Len(log)])) =>
        LET e == log[Len(log)]
        IN  /\ rate_limit_remaining
                 = (IF e.resp.remaining = None THEN 5000 ELSE e.resp.remaining)
            /\ rate_limit_reset
                 = (IF e.resp.reset = None THEN e.reset_enter ELSE e.resp.reset)

\* A 404 without the reset header, received by a client that held a reset
\* time and a low quota from an earlier response of the get.
C36_Witness ==
    /\ pc = "raised"
    /\ Len(log) > 1
    /\ LET e == log[Len(log)]
       IN  /\ IsHttp(e) /\ e.resp.status = 404
           /\ e.resp.reset = None /\ e.reset_enter # None
           /\ e.resp.remaining = None /\ e.remaining_enter = BelowLowWater
           /\ rate_limit_remaining = DefaultRemaining

\* --------------------------------------------------------------------- C34
GetEnded == pc \in {"returned", "raised"}

\* The requests a get has issued are never more than max_retries + 1, and a
\* get that has ended returned a body or raised a GitHubAPIError.
BoundedRequests ==
    /\ Len(log) <= DefaultMaxRetries + 1
    /\ pc = "returned" => result.kind = "ok"
    /\ pc = "raised" => result.kind = "error"

\* C34: every get terminates: whatever the responses (200, rate-limit 403,
\* other 403, 401, 404, 500, network failures, in any mix), _make_request
\* issues at most max_retries + 1 requests and then has returned a body or
\* raised a GitHubAPIError.
C34_GetTerminates ==
    /\ []BoundedRequests
    /\ (pc = "running") ~> GetEnded
    /\ [](Len(log) = DefaultMaxRetries + 1 => GetEnded)

\* A get that ended after max_retries + 1 requests, a rate-limit 403, a
\* network failure and a 500 among them.
C34_Witness ==
    /\ pc = "raised"
    /\ Len(log) = DefaultMaxRetries + 1
    /\ \E i, j, k \in 1..Len(log) :
          /\ IsRateLimit403(log[i])
          /\ log[j].resp.kind = "neterr"
          /\ Is500(log[k])

\* --------------------------------------------------------------------- C32
\* C32: minimum spacing: of any two consecutive HTTP requests issued by one
\* client instance, within one get or across gets, the second starts at
\* least 100 ms after the start of the first.
C32_MinimumSpacing ==
    \A i \in 1..(Len(log) - 1) :
        (log[i + 1].t_request - log[i].t_request) * 10 >= TicksPerSec

\* --------------------------------------------------------------------- C33
\* The series returned for a response, by a gap-fill that read end_date:
\* its n-th entry is dated the n-th day of the window, and is an entry the
\* response reported for that day, or a zero entry when there is none.
GapFillContent(series, complete, end_date) ==
    /\ Len(complete) = 14
    /\ \A n \in 1 .. 14 :
          LET date == end_date - 14 + n
          IN  /\ complete[n].timestamp = date
              /\ IF \E j \in DOMAIN series : series[j].timestamp = date
                 THEN \E j \in DOMAIN series : series[j] = complete[n]
                 ELSE complete[n].count = 0 /\ complete[n].uniques = 0

\* C33: in each series returned by collect_historical, the entry for a
\* window date the API reported carries the count and uniques the API
\* reported for that date, the entry for a window date the API did not
\* report has count 0 and uniques 0, and API entries dated outside the
\* trailing 14-day window (or not dated) do not appear.
C33_GapFillContent ==
    collected # NotCollected =>
        /\ GapFillContent(api.views.series, collected.returned.views_complete,
                          collected.views_date)
        /\ GapFillContent(api.clones.series, collected.returned.clones_complete,
                          collected.clones_date)

\* The views response reported the day after the window and then the day
\* before its last; the returned series has the reported entry on that day
\* and a zero entry on the last day.
C33_Witness ==
    /\ collected # NotCollected
    /\ collected.views_date = YearEnd
    /\ api.views.series = <<DayData(NewYear, 7, 5), DayData(YearEnd - 1, 4, 3)>>
    /\ collected.returned.views_complete[13] = DayData(YearEnd - 1, 4, 3)
    /\ collected.returned.views_complete[14] = DayData(YearEnd, 0, 0)
    /\ collected.returned.views_complete[1] = DayData(YearEnd - 13, 0, 0)

\* --------------------------------------------------------------------- C37
DatesOf(series) == { series[n].timestamp : n \in DOMAIN series }

\* C37: the views series and the clones series returned by one
\* collect_historical call cover the same 14 calendar dates, however the
\* UTC clock advances between the two gap-fill computations of the call.
C37_SameDates ==
    collected # NotCollected =>
        /\ Cardinality(DatesOf(collected.returned.views_complete)) = 14
        /\ DatesOf(collected.returned.views_complete)
             = DatesOf(collected.returned.clones_complete)

\* --------------------------------------------------------------------- C35
\* Calls i and i + 1 are store_historical for one repository with the same
\* series, and their writes reached the disk.
RepeatedStoreHistorical(i) ==
    /\ i + 1 \in OpIndexes
    /\ IsCall(i, "store_historical") /\ IsCall(i + 1, "store_historical")
    /\ ops[i + 1].repo = ops[i].repo
    /\ ops[i + 1].args = ops[i].args
    /\ ops[i].disk = "ok" /\ ops[i + 1].disk = "ok"

\* C35: store_historical is idempotent on counters: after two calls in a row
\* with the same views and clones series the repository has the same date
\* entries with the same four counters as after the first call.
C35_StoreHistoricalIdempotent ==
    \A i \in OpIndexes :
        RepeatedStoreHistorical(i) =>
            DailyCounters(ops[i + 1].after) = DailyCounters(ops[i].after)

\* A repeated call with views and clones for the same day: the first call
\* created the record and returned True, the second found it.
C35_Witness ==
    \E i \in OpIndexes :
        /\ RepeatedStoreHistorical(i)
        /\ ops[i].args.views_daily # <<>> /\ ops[i].args.clones_daily # <<>>
        /\ ops[i].ok /\ ~ops[i + 1].ok
        /\ StoredDates(ops[i].after) # {}
        /\ files[ops[i].repo] = ops[i + 1].after

\* --------------------------------------------------------------------- C38
\* The historical step of r's run wrote its series to the disk, after the
\* store of the current traffic did.
StoredHistorical(r) ==
    /\ \E i \in StepIndexes :
          steps[i].repo = r /\ steps[i].step = "store_current" /\ steps[i].disk = "ok"
    /\ \E i \in StepIndexes :
          steps[i].repo = r /\ steps[i].step = "store_historical" /\ steps[i].disk = "ok"

\* C38: in a repository run that includes the historical step, today's
\* record ends with views and unique_visitors equal to the current-traffic
\* totals written by the store of the current traffic (the historical views
\* entry for today does not replace them), and with clones and
\* unique_cloners equal to the historical clones entry for today (which
\* replaces the totals).
C38_TodaysRecord ==
    \A r \in 1..Len(config) :
        (StoredHistorical(r) /\ LastCollectionOf(r)) =>
            CountersOf(files[NameOf(config, r)], DateName(DateTime(today, 1)))
              = { <<api.views.count, api.views.uniques,
                    Reported(api.clones, today).count, Reported(api.clones, today).uniques>> }

\* A finished run with the historical step, in which the API reported views
\* for today other than the totals, and clone totals other than the clones
\* of today.
C38_Witness ==
    /\ opc = "done"
    /\ StoredHistorical(cur)
    /\ Reported(api.views, today).count # api.views.count
    /\ Reported(api.views, today).count > 0
    /\ Reported(api.clones, today).count # api.clones.count
    /\ returns[cur] = TRUE

\* --------------------------------------------------------------------- C39
StoreCalls == {"store_daily", "store_historical", "store_referrers"}

\* The dates call i names: the date of store_daily, the dates of the dated
\* entries of the two series of store_historical.
NamedDates(i) ==
    IF IsCall(i, "store_daily") THEN {DateName(ops[i].args.date)}
    ELSE IF IsCall(i, "store_historical")
    THEN { DateNameOf(ops[i].args.views_daily[j]) : j \in Dated(ops[i].args.views_daily) }
         \cup { DateNameOf(ops[i].args.clones_daily[j]) : j \in Dated(ops[i].args.clones_daily) }
    ELSE {}

\* The referrers document without the month call i stores.
OtherMonths(i, repo_files) ==
    LET doc == LoadReferrersData(repo_files)
        stored == IF IsCall(i, "store_referrers") THEN {MonthKeyOf(i)} ELSE {}
    IN  [month \in DOMAIN doc \ stored |-> doc[month]]

\* Call i left the records of the dates it does not name, and the referrer
\* counts of the months it does not store, as they were.
FrameOfCall(i) ==
    /\ \A date_name \in (StoredDates(ops[i].before) \cup StoredDates(ops[i].after))
                           \ NamedDates(i) :
          RecordsOf(ops[i].after, date_name) = RecordsOf(ops[i].before, date_name)
    /\ OtherMonths(i, ops[i].after) = OtherMonths(i, ops[i].before)

\* The files of a repository after the calls before call i: those left by
\* the last of these calls made for the repository.
FilesBeforeCall(i, repo) ==
    LET earlier == { j \in 1 .. (i - 1) : ops[j].repo = repo }
    IN  IF earlier = {} THEN NoFiles
        ELSE ops[CHOOSE j \in earlier : \A x \in earlier : x <= j].after

\* Calls change the documents of the repository they are made for only.
OtherRepositoriesUntouched ==
    /\ \A i \in OpIndexes : ops[i].before = FilesBeforeCall(i, ops[i].repo)
    /\ \A repo \in Repos : files[repo] = FilesBeforeCall(Len(ops) + 1, repo)

\* C39: frame of a store: store_daily, store_historical and store_referrers
\* for (owner, repo) leave unchanged every daily record of that repository
\* for dates not named in the call (records of other years included), every
\* referrer count of months other than the one stored, and all documents of
\* every other repository.
C39_FrameOfStore ==
    /\ \A i \in OpIndexes : ops[i].op \in StoreCalls => FrameOfCall(i)
    /\ OtherRepositoriesUntouched

\* The frame of the calls during which no write broke off midway.
C39_FrameOfCompletedWrites ==
    /\ \A i \in OpIndexes :
          (ops[i].op \in StoreCalls /\ ops[i].disk # "fail_write") => FrameOfCall(i)
    /\ OtherRepositoriesUntouched

\* A store for the first day of the year, written to the disk, found a
\* record of the last day of the year before and left it as it was.
C39_FrameWitness ==
    \E i \in OpIndexes :
        /\ IsCall(i, "store_daily") /\ ops[i].disk = "ok"
        /\ ops[i].args.date = DateTime(NewYear, 0)
        /\ RecordsOf(ops[i].before, DateName(DateTime(YearEnd, 0))) # {}
        /\ RecordsOf(ops[i].after, DateName(DateTime(YearEnd, 0)))
             = RecordsOf(ops[i].before, DateName(DateTime(YearEnd, 0)))
        /\ RecordsOf(ops[i].after, DateName(DateTime(NewYear, 0))) # {}

====
